---------------------------- MODULE Spec2Model ----------------------------
(***************************************************************************)
(* Verification model of the signal confluence and market-structure        *)
(* pipeline: the buy/sell confluence evaluators, their resolution into one *)
(* overall sentiment, and the structure detectors working on a price       *)
(* series (swing points, fair value gaps).                                 *)
(*                                                                         *)
(* Numbers are integers in fixed units so that every comparison of the     *)
(* source is exact:                                                        *)
(*   prices and volumes      tenths            (193.0  -> 1930)            *)
(*   funding rates           1e-5              (0.0003 -> 30)              *)
(*   open interest           millions          (1.5e9  -> 1500)            *)
(*   long/short, taker ratio hundredths        (0.98   -> 98)              *)
(*   RSI                     points            (55.0   -> 55)              *)
(* Python values are tagged records: [t |-> "none"], [t |-> "num", v],     *)
(* [t |-> "str", v] (a numeric string whose float() is v), a list is       *)
(* [t |-> "list", items |-> <<...>>] and a dict is a record holding        *)
(* t |-> "dict" next to its own keys.                                       *)
(***************************************************************************)
EXTENDS Integers, Sequences, FiniteSets, TLC

VARIABLES
    market_data,           \* the argument of evaluate_market_confluence
    pc,                    \* "ready" before the call, "done" after it
    buy_strength_result,   \* local of evaluate_market_confluence
    sell_strength_result,  \* local of evaluate_market_confluence
    confluence_result,     \* what evaluate_market_confluence returned (or raised)
    ohlcv_df,              \* the price series handed to the structure detectors
    min_bars,              \* min_bars_between_swings of the current call
    swing_result,          \* result of find_significant_swing_points
    fvg_result,            \* result of detect_fvg
    bos_choch_result,      \* result of detect_bos_choch
    order_block_result,    \* result of detect_order_block
    trading_plan,          \* what generate_trading_signal of signals/ returned
    detailed_signal,       \* what the detailed generate_trading_signal returned
    zone_check,            \* a price, an open and a zone, and what the zone helpers say
    price_df,              \* the DataFrame object a caller hands to the analyzers
    ta_output,             \* what the ta library computes from its close column
    calls                  \* the analyzer calls made on price_df, in order

vars == <<market_data, pc, buy_strength_result, sell_strength_result,
          confluence_result, ohlcv_df, min_bars, swing_result, fvg_result,
          bos_choch_result, order_block_result, trading_plan, detailed_signal,
          zone_check, price_df, ta_output, calls>>

-----------------------------------------------------------------------------
(* Python values *)

NoneV == [t |-> "none"]
Num(x) == [t |-> "num", v |-> x]
Str(x) == [t |-> "str", v |-> x]
List(s) == [t |-> "list", items |-> s]
EmptyDict == [t |-> "dict"]

IsNone(x) == x.t = "none"
IsDict(x) == x.t = "dict"
IsList(x) == x.t = "list"
IsStr(x) == x.t = "str"

\* dict.get(key, default)
Get(d, key, default) == IF key \in DOMAIN d THEN d[key] ELSE default

\* Python truthiness of a tagged value: None, {} and [] are falsy.
Truthy(x) ==
    CASE x.t = "none" -> FALSE
      [] x.t = "dict" -> DOMAIN x # {"t"}
      [] x.t = "list" -> x.items # <<>>
      [] x.t = "num" -> x.v # 0
      [] OTHER -> TRUE

MinOf(a, b) == IF a <= b THEN a ELSE b
MaxOf(a, b) == IF a >= b THEN a ELSE b

RECURSIVE SeqMax(_)
SeqMax(s) == IF Len(s) = 1 THEN s[1] ELSE MaxOf(s[1], SeqMax(Tail(s)))

RECURSIVE SeqMin(_)
SeqMin(s) == IF Len(s) = 1 THEN s[1] ELSE MinOf(s[1], SeqMin(Tail(s)))

RECURSIVE SeqSum(_)
SeqSum(s) == IF s = <<>> THEN 0 ELSE s[1] + SeqSum(Tail(s))

\* the first non-"none" exception of a sequence of section outcomes
RECURSIVE FirstExc(_)
FirstExc(s) ==
    IF s = <<>> THEN "none"
    ELSE IF s[1] # "none" THEN s[1] ELSE FirstExc(Tail(s))

-----------------------------------------------------------------------------
(* confluence_helpers.py.  A zone is a sequence of prices; <<>> stands for *)
(* a zone that is None.                                                    *)

\* a variant of the membership test that takes the bounds in the order given
_is_price_in_zone_as_given(current_price, zone) ==
    IF Len(zone) # 2 THEN FALSE
    ELSE zone[1] <= current_price /\ current_price <= zone[2]

_is_price_in_zone(current_price, zone) ==
    IF Len(zone) # 2 THEN FALSE
    ELSE LET zone_min == MinOf(zone[1], zone[2])
             zone_max == MaxOf(zone[1], zone[2])
         IN  zone_min <= current_price /\ current_price <= zone_max

\* tolerance_permille is tolerance_percent * 1000; both sides of each
\* comparison are multiplied by 1000.
_is_price_near_zone(current_price, zone, tolerance_permille) ==
    IF Len(zone) # 2 THEN FALSE
    ELSE LET zone_min == MinOf(zone[1], zone[2])
             zone_max == MaxOf(zone[1], zone[2])
             abs_tolerance == current_price * tolerance_permille
         IN  /\ current_price * 1000 >= zone_min * 1000 - abs_tolerance
             /\ current_price * 1000 <= zone_max * 1000 + abs_tolerance

\* the test on the close alone, whatever side the open is on
_is_price_entering_zone_by_close(open_price, close_price, zone) ==
    IF Len(zone) # 2 THEN FALSE
    ELSE LET zone_min == MinOf(zone[1], zone[2])
             zone_max == MaxOf(zone[1], zone[2])
         IN  close_price >= zone_min /\ close_price <= zone_max

_is_price_entering_zone(open_price, close_price, zone) ==
    IF Len(zone) # 2 THEN FALSE
    ELSE LET zone_min == MinOf(zone[1], zone[2])
             zone_max == MaxOf(zone[1], zone[2])
             bullish_entry == open_price < zone_min /\ close_price >= zone_min
                                /\ close_price <= zone_max
             bearish_entry == open_price > zone_max /\ close_price <= zone_max
                                /\ close_price >= zone_min
         IN  bullish_entry \/ bearish_entry

\* A key of a path is [s |-> name] (a string) or [i |-> index] (an int).
K(name) == [s |-> name]
I(index) == [i |-> index]

RECURSIVE SafeGetWalk(_, _, _, _)
SafeGetWalk(current_data, keys, n, default) ==
    IF n > Len(keys)
    THEN IF IsNone(current_data) THEN default ELSE current_data
    ELSE LET key == keys[n]
             isdict == IsDict(current_data)
             islist == IsList(current_data) /\ "i" \in DOMAIN key
             inrange == islist /\ key.i < Len(current_data.items)
             next == IF isdict
                     THEN IF "s" \in DOMAIN key
                          THEN Get(current_data, key.s, NoneV)
                          ELSE NoneV
                     ELSE current_data.items[key.i + 1]
         IN  IF ~isdict /\ ~inrange THEN default
             ELSE IF IsNone(next) /\ n < Len(keys) THEN default
             ELSE SafeGetWalk(next, keys, n + 1, default)

safe_get_nested(data, keys, default) == SafeGetWalk(data, keys, 1, default)

-----------------------------------------------------------------------------
(* Thresholds of buy_confluence_rules.py and sell_confluence_rules.py, in  *)
(* the units given at the top.                                             *)

FUNDING_RATE_THRESHOLD_POSITIVE == 10
FUNDING_RATE_THRESHOLD_NEGATIVE == -10
OPEN_INTEREST_HIGH_THRESHOLD == 100
ORDERBOOK_WALL_VOLUME_MULTIPLIER == 50
LONG_SHORT_RATIO_BULLISH_BIAS_MAX == 105
LONG_SHORT_RATIO_BULLISH_BIAS_MIN == 95
LONG_SHORT_RATIO_BEARISH_BIAS_MIN == 110
LONG_SHORT_RATIO_BEARISH_BIAS_MAX == 125
TAKER_VOLUME_BULLISH_THRESHOLD == 55
TAKER_VOLUME_BEARISH_THRESHOLD == 45
PRICE_NEAR_ZONE_TOLERANCE_OB == 5

\* float(x) of a number or of a numeric string
Float(x) == x.v

\* the outcome of one block of an evaluator: the flag it sets, the reasons it
\* appends and the exception it raises ("none" when it completes)
Block(flag, reason) == [flag |-> flag, reason |-> reason, exc |-> "none"]
Raises(exc) == [flag |-> FALSE, reason |-> <<>>, exc |-> exc]

\* the price and volume columns of the first (up to) five orderbook levels
LevelPrices(levels) == [n \in 1..Len(levels) |-> Float(levels[n][1])]
TopFiveVolume(levels) ==
    SeqSum([n \in 1..MinOf(5, Len(levels)) |-> Float(levels[n][2])])

FundingPath == <<K("funding_rate"), I(0), K("fundingRate")>>
BybitFundingPath ==
    <<K("funding_rate"), K("result"), K("list"), I(0), K("fundingRate")>>
OpenInterestPath == <<K("open_interest"), K("openInterest")>>
BybitOpenInterestPath ==
    <<K("open_interest"), K("result"), K("list"), I(0), K("openInterest")>>
LongShortPath == <<K("long_short_account_ratio"), I(0), K("longShortRatio")>>
BybitLongShortPath ==
    <<K("long_short_ratio"), K("result"), K("list"), I(0), K("longShortRatio")>>
TakerPath == <<K("taker_buy_sell_volume"), I(0), K("buySellRatio")>>

-----------------------------------------------------------------------------
(* check_buy_confluence: the auxiliary market data blocks *)

BuyOrderbook(binance_spot_data, current_price) ==
    LET binance_orderbook == Get(binance_spot_data, "orderbook", NoneV)
        bids == Get(binance_orderbook, "bids", NoneV)
        top_bid_price == SeqMax(LevelPrices(bids.items))
        top_bid_volume == TopFiveVolume(bids.items)
        P == current_price.v
    IN  IF Truthy(binance_orderbook) /\ Truthy(bids) /\ ~IsNone(current_price)
        THEN IF /\ top_bid_price # 0
                /\ (P - top_bid_price) * 1000 < 5 * P
                /\ top_bid_volume * 10 > ORDERBOOK_WALL_VOLUME_MULTIPLIER * P
             THEN Block(TRUE, <<"Orderbook: Strong Bid Wall">>)
             ELSE Block(FALSE, <<>>)
        ELSE Block(FALSE, <<>>)

BuyFundingRate(binance_futures_data, bybit_data) ==
    LET binance_fr == safe_get_nested(binance_futures_data, FundingPath, Num(0))
        bybit_fr == safe_get_nested(bybit_data, BybitFundingPath, Num(0))
    IN  IF IsStr(binance_fr) THEN Raises("TypeError")
        ELSE IF binance_fr.v > FUNDING_RATE_THRESHOLD_POSITIVE
        THEN IF IsStr(bybit_fr) THEN Raises("ValueError")
             ELSE Block(TRUE, <<"Funding Rate: Positive">>)
        ELSE IF IsStr(bybit_fr) THEN Raises("TypeError")
        ELSE IF bybit_fr.v > FUNDING_RATE_THRESHOLD_POSITIVE
        THEN Block(TRUE, <<"Funding Rate: Positive">>)
        ELSE Block(FALSE, <<>>)

BuyOpenInterest(binance_futures_data, bybit_data, current_price, current_open_price) ==
    LET binance_oi == safe_get_nested(binance_futures_data, OpenInterestPath, Num(0))
        bybit_oi == safe_get_nested(bybit_data, BybitOpenInterestPath, Num(0))
        priced == ~IsNone(current_price) /\ ~IsNone(current_open_price)
        rising == priced /\ current_price.v > current_open_price.v
    IN  IF rising /\ IsStr(binance_oi) THEN Raises("TypeError")
        ELSE IF rising /\ binance_oi.v > OPEN_INTEREST_HIGH_THRESHOLD
        THEN IF IsStr(bybit_oi) THEN Raises("TypeError")
             ELSE IF bybit_oi.v > OPEN_INTEREST_HIGH_THRESHOLD
             THEN Block(TRUE, <<"Open Interest: Increasing with rising price">>)
             ELSE Block(FALSE, <<>>)     \* elif: binance_oi > 0, logged
        ELSE IF IsStr(binance_oi) THEN Raises("TypeError")
        ELSE IF binance_oi.v > 0
        THEN IF priced THEN Block(FALSE, <<>>) ELSE Raises("TypeError")
        ELSE IF IsStr(bybit_oi) THEN Raises("TypeError")
        ELSE IF bybit_oi.v > 0 /\ ~priced THEN Raises("TypeError")
        ELSE Block(FALSE, <<>>)

BuyLongShortRatio(binance_futures_data, bybit_data) ==
    LET binance_ls_account_ratio ==
            safe_get_nested(binance_futures_data, LongShortPath, Num(100))
        bybit_ls_ratio == safe_get_nested(bybit_data, BybitLongShortPath, Num(100))
        InBias(r) == r.v < LONG_SHORT_RATIO_BULLISH_BIAS_MAX
                       /\ r.v > LONG_SHORT_RATIO_BULLISH_BIAS_MIN
    IN  IF IsStr(binance_ls_account_ratio) THEN Raises("TypeError")
        ELSE IF InBias(binance_ls_account_ratio)
        THEN IF IsStr(bybit_ls_ratio) THEN Raises("ValueError")
             ELSE Block(TRUE, <<"Long/Short Ratio: balanced or slightly bullish">>)
        ELSE IF IsStr(bybit_ls_ratio) THEN Raises("TypeError")
        ELSE IF InBias(bybit_ls_ratio)
        THEN Block(TRUE, <<"Long/Short Ratio: balanced or slightly bullish">>)
        ELSE Block(FALSE, <<>>)

BuyTakerVolume(binance_futures_data) ==
    LET taker_buy_sell_ratio == safe_get_nested(binance_futures_data, TakerPath, Num(50))
    IN  IF IsStr(taker_buy_sell_ratio) THEN Raises("TypeError")
        ELSE IF taker_buy_sell_ratio.v > TAKER_VOLUME_BULLISH_THRESHOLD
        THEN Block(TRUE, <<"Taker Volume: Buy Volume Dominant">>)
        ELSE Block(FALSE, <<>>)

-----------------------------------------------------------------------------
(* check_buy_confluence: flags, reasons and tier *)

\* the reason appended when flag holds
Why(flag, text) == IF flag THEN <<text>> ELSE <<>>

\* sum([...]) over the five auxiliary flags
CountTrue(flags) == SeqSum([n \in 1..Len(flags) |-> IF flags[n] THEN 1 ELSE 0])

\* The confluences dict of check_buy_confluence once every block has run,
\* with the reasons appended on the way and the first exception raised.
\* classic_indicators is a dict here (the None case returns before).
BuyConfluences(classic_indicators, smc_signals, current_price, current_open_price, market_data_additional) ==
    LET ema_signal == Get(classic_indicators, "ema_signal", "None")
        macd_trend == Get(classic_indicators, "macd_trend", "None")
        stoch_signal == Get(classic_indicators, "stoch_signal", "None")
        bb_signal == Get(classic_indicators, "bb_signal", "None")
        rsi_value == Get(classic_indicators, "rsi", NoneV)
        smc_signals_safe == IF IsNone(smc_signals) THEN EmptyDict ELSE smc_signals
        bos_choch == Get(smc_signals_safe, "bos_choch", EmptyDict)
        fvg_data == Get(smc_signals_safe, "fvg", EmptyDict)
        order_block_data == Get(smc_signals_safe, "order_block", EmptyDict)
        eq_zone_data == Get(smc_signals_safe, "eq_zone", EmptyDict)
        mda_none == IsNone(market_data_additional)
        binance_spot_data ==
            IF mda_none THEN EmptyDict
            ELSE Get(market_data_additional, "binance_spot", EmptyDict)
        binance_futures_data ==
            IF mda_none THEN EmptyDict
            ELSE Get(market_data_additional, "binance_futures", EmptyDict)
        bybit_data ==
            IF mda_none THEN EmptyDict
            ELSE Get(market_data_additional, "bybit", EmptyDict)
        priced == ~IsNone(current_price) /\ ~IsNone(current_open_price)
        P == current_price.v
        O == current_open_price.v
        \* classic indicators
        ema_bullish_trend == ema_signal \in {"strong_bullish", "bullish"}
        macd_bullish_momentum == macd_trend = "bullish"
        rsi_not_overbought == ~IsNone(rsi_value) /\ rsi_value.v < 70
        rsi_oversold == rsi_not_overbought /\ rsi_value.v < 30
        stoch_bullish_momentum == stoch_signal \in {"bullish", "oversold_bullish_cross"}
        bb_bullish_signal ==
            bb_signal \in {"cross_above_middle", "bounce_from_lower",
                           "cross_above_lower_band", "outside_lower_band"}
        \* SMC signals
        bos_type == Get(bos_choch, "type", "None")
        smc_structure_break ==
            bos_type \in {"bullish_bos", "bullish_choch", "bullish_choch_potential"}
        fvg_zone == Get(fvg_data, "zone", <<>>)
        fvg_bullish_presence ==
            /\ Truthy(fvg_data) /\ Get(fvg_data, "type", "None") = "bullish_fvg"
            /\ fvg_zone # <<>> /\ priced
        price_reacting_to_fvg ==
            /\ fvg_bullish_presence
            /\ \/ _is_price_in_zone(P, fvg_zone)
               \/ _is_price_entering_zone(O, P, fvg_zone)
        bullish_ob_data == Get(order_block_data, "bullish_ob", NoneV)
        ob_bullish_presence ==
            /\ Truthy(bullish_ob_data)
            /\ "low" \in DOMAIN bullish_ob_data /\ "high" \in DOMAIN bullish_ob_data
            /\ priced
        ob_zone == <<bullish_ob_data.low, bullish_ob_data.high>>
        price_reacting_to_ob ==
            /\ ob_bullish_presence
            /\ \/ _is_price_near_zone(P, ob_zone, PRICE_NEAR_ZONE_TOLERANCE_OB)
               \/ _is_price_entering_zone(O, P, ob_zone)
        eq_low == Get(eq_zone_data, "eq_low", <<>>)
        last_eq_low_level == SeqMax(eq_low)
        eq_low_swept ==
            /\ eq_low # <<>> /\ priced
            /\ O < last_eq_low_level /\ P > last_eq_low_level
            /\ P * 1000 < last_eq_low_level * 1005
        eq_low_near ==
            /\ eq_low # <<>> /\ priced /\ ~eq_low_swept
            /\ _is_price_near_zone(P, <<last_eq_low_level, last_eq_low_level>>, 1)
        liquidity_grab_low == eq_low_swept \/ eq_low_near
        \* auxiliary market data
        orderbook == BuyOrderbook(binance_spot_data, current_price)
        funding == BuyFundingRate(binance_futures_data, bybit_data)
        oi == BuyOpenInterest(binance_futures_data, bybit_data,
                              current_price, current_open_price)
        ls == BuyLongShortRatio(binance_futures_data, bybit_data)
        taker == BuyTakerVolume(binance_futures_data)
    IN  [ema_bullish_trend |-> ema_bullish_trend,
         macd_bullish_momentum |-> macd_bullish_momentum,
         rsi_not_overbought |-> rsi_not_overbought,
         stoch_bullish_momentum |-> stoch_bullish_momentum,
         smc_structure_break |-> smc_structure_break,
         fvg_bullish_presence |-> fvg_bullish_presence,
         ob_bullish_presence |-> ob_bullish_presence,
         price_reacting_to_fvg |-> price_reacting_to_fvg,
         price_reacting_to_ob |-> price_reacting_to_ob,
         liquidity_grab_low |-> liquidity_grab_low,
         bb_bullish_signal |-> bb_bullish_signal,
         ob_support_strong |-> orderbook.flag,
         funding_rate_bullish |-> funding.flag,
         oi_increasing_with_price |-> oi.flag,
         long_short_ratio_bullish_divergence |-> ls.flag,
         taker_buy_volume_dominant |-> taker.flag,
         exc |-> FirstExc(<<orderbook.exc, funding.exc, oi.exc, ls.exc, taker.exc>>),
         reason |->
            Why(IsNone(smc_signals), "SMC Signals: Data missing.")
            \o Why(mda_none, "Additional Market Data: Data missing.")
            \o Why(ema_bullish_trend, "EMA: Bullish Trend")
            \o Why(macd_bullish_momentum, "MACD: Bullish Momentum")
            \o Why(rsi_not_overbought, "RSI: Not Overbought")
            \o Why(rsi_oversold, "RSI: Oversold - Potential Reversal")
            \o Why(stoch_bullish_momentum, "Stoch RSI: Bullish Momentum/Crossover")
            \o Why(bb_bullish_signal, "BB: Bullish")
            \o Why(smc_structure_break, "SMC: Bullish Break Detected")
            \o Why(fvg_bullish_presence, "SMC: Bullish FVG Present")
            \o Why(price_reacting_to_fvg, "SMC: Price in/entering Bullish FVG (reaction)")
            \o Why(ob_bullish_presence, "SMC: Bullish OB Present")
            \o Why(price_reacting_to_ob, "SMC: Price near/in/entering Bullish OB (reaction)")
            \o Why(eq_low_swept, "SMC: Equal Low swept and reversed (liquidity grab).")
            \o Why(eq_low_near, "SMC: Price near Equal Low (potential liquidity).")
            \o orderbook.reason \o funding.reason \o oi.reason \o ls.reason
            \o taker.reason]

\* the three tier conditions of check_buy_confluence on a confluences dict
BuyAdditional(c) ==
    CountTrue(<<c.ob_support_strong, c.funding_rate_bullish, c.oi_increasing_with_price,
                c.long_short_ratio_bullish_divergence, c.taker_buy_volume_dominant>>)

BuyStrong(c) ==
    /\ c.ema_bullish_trend /\ c.macd_bullish_momentum /\ c.rsi_not_overbought
    /\ c.stoch_bullish_momentum /\ c.smc_structure_break
    /\ (c.price_reacting_to_ob \/ c.price_reacting_to_fvg)
    /\ (c.liquidity_grab_low \/ c.bb_bullish_signal)
    /\ BuyAdditional(c) >= 2

BuyModerate(c) ==
    /\ c.ema_bullish_trend /\ c.smc_structure_break
    /\ (c.macd_bullish_momentum \/ c.stoch_bullish_momentum \/ c.bb_bullish_signal)
    /\ (c.price_reacting_to_ob \/ c.price_reacting_to_fvg \/ c.liquidity_grab_low)
    /\ BuyAdditional(c) >= 1

BuyPotential(c) ==
    /\ (c.price_reacting_to_ob \/ c.price_reacting_to_fvg \/ c.liquidity_grab_low)
    /\ (c.rsi_not_overbought \/ c.stoch_bullish_momentum \/ c.bb_bullish_signal)

\* a variant of the if-chain that tests moderate before strong
BuyTierModerateFirst(c) ==
    IF BuyModerate(c) THEN "moderate_buy"
    ELSE IF BuyStrong(c) THEN "strong_buy"
    ELSE IF BuyPotential(c) THEN "potential_buy"
    ELSE "no_signal"

\* the tier chosen by the if-chain at the end of check_buy_confluence
BuyTier(c) ==
    IF BuyStrong(c) THEN "strong_buy"
    ELSE IF BuyModerate(c) THEN "moderate_buy"
    ELSE IF BuyPotential(c) THEN "potential_buy"
    ELSE "no_signal"

TierReason(type) ==
    CASE type \in {"strong_buy", "strong_sell"} -> <<"Strong Confluence">>
      [] type \in {"moderate_buy", "moderate_sell"} -> <<"Moderate Confluence">>
      [] type \in {"potential_buy", "potential_sell"} -> <<"Potential Confluence">>
      [] OTHER -> <<>>

\* what an evaluator hands back: a {type, reason} dict, or an exception
Returned(type, reason) == [exc |-> "none", type |-> type, reason |-> reason]
Raised(exc) == [exc |-> exc, type |-> "raised", reason |-> <<>>]

check_buy_confluence(classic_indicators, smc_signals, current_price, current_open_price, market_data_additional) ==
    IF IsNone(classic_indicators)
    THEN Returned("no_signal", <<"Classic Indicators: Data missing.">>)
    ELSE LET c == BuyConfluences(classic_indicators, smc_signals, current_price,
                                 current_open_price, market_data_additional)
             type == BuyTier(c)
         IN  IF c.exc # "none" THEN Raised(c.exc)
             ELSE Returned(type, c.reason \o TierReason(type))

-----------------------------------------------------------------------------
(* check_sell_confluence: the auxiliary market data blocks *)

SellOrderbook(binance_spot_data, current_price) ==
    LET binance_orderbook == Get(binance_spot_data, "orderbook", NoneV)
        asks == Get(binance_orderbook, "asks", NoneV)
        top_ask_price == SeqMin(LevelPrices(asks.items))
        top_ask_volume == TopFiveVolume(asks.items)
        P == current_price.v
    IN  IF Truthy(binance_orderbook) /\ Truthy(asks) /\ ~IsNone(current_price)
        THEN IF /\ P # 0 /\ top_ask_price # 0
                /\ (top_ask_price - P) * 1000 < 5 * P
                /\ top_ask_volume * 10 > ORDERBOOK_WALL_VOLUME_MULTIPLIER * P
             THEN Block(TRUE, <<"Orderbook: Strong Ask Wall">>)
             ELSE Block(FALSE, <<>>)
        ELSE Block(FALSE, <<>>)

SellFundingRate(binance_futures_data, bybit_data) ==
    LET binance_fr == safe_get_nested(binance_futures_data, FundingPath, Num(0))
        bybit_fr == safe_get_nested(bybit_data, BybitFundingPath, Num(0))
    IN  IF IsStr(binance_fr) THEN Raises("TypeError")
        ELSE IF binance_fr.v < FUNDING_RATE_THRESHOLD_NEGATIVE
        THEN IF IsStr(bybit_fr) THEN Raises("ValueError")
             ELSE Block(TRUE, <<"Funding Rate: Negative">>)
        ELSE IF IsStr(bybit_fr) THEN Raises("TypeError")
        ELSE IF bybit_fr.v < FUNDING_RATE_THRESHOLD_NEGATIVE
        THEN Block(TRUE, <<"Funding Rate: Negative">>)
        ELSE Block(FALSE, <<>>)

SellOpenInterest(binance_futures_data, bybit_data, current_price, current_open_price) ==
    LET binance_oi == safe_get_nested(binance_futures_data, OpenInterestPath, Num(0))
        bybit_oi == safe_get_nested(bybit_data, BybitOpenInterestPath, Num(0))
        priced == ~IsNone(current_price) /\ ~IsNone(current_open_price)
        falling == priced /\ current_price.v < current_open_price.v
    IN  IF falling /\ IsStr(binance_oi) THEN Raises("TypeError")
        ELSE IF falling /\ binance_oi.v > OPEN_INTEREST_HIGH_THRESHOLD
        THEN IF IsStr(bybit_oi) THEN Raises("TypeError")
             ELSE IF bybit_oi.v > OPEN_INTEREST_HIGH_THRESHOLD
             THEN Block(TRUE, <<"Open Interest: Increasing with falling price">>)
             ELSE Block(FALSE, <<>>)     \* elif: binance_oi > 0, logged
        ELSE IF IsStr(binance_oi) THEN Raises("TypeError")
        ELSE IF binance_oi.v > 0
        THEN IF priced THEN Block(FALSE, <<>>) ELSE Raises("TypeError")
        ELSE IF IsStr(bybit_oi) THEN Raises("TypeError")
        ELSE IF bybit_oi.v > 0 /\ ~priced THEN Raises("TypeError")
        ELSE Block(FALSE, <<>>)

SellLongShortRatio(binance_futures_data, bybit_data) ==
    LET binance_ls_account_ratio ==
            safe_get_nested(binance_futures_data, LongShortPath, Num(100))
        bybit_ls_ratio == safe_get_nested(bybit_data, BybitLongShortPath, Num(100))
    IN  IF IsStr(binance_ls_account_ratio) THEN Raises("TypeError")
        ELSE IF IsStr(bybit_ls_ratio)
        THEN IF /\ binance_ls_account_ratio.v > LONG_SHORT_RATIO_BEARISH_BIAS_MIN
                /\ ~(binance_ls_account_ratio.v < LONG_SHORT_RATIO_BEARISH_BIAS_MAX)
             THEN Raises("ValueError")
             ELSE Raises("TypeError")
        ELSE IF /\ \/ binance_ls_account_ratio.v > LONG_SHORT_RATIO_BEARISH_BIAS_MIN
                   \/ bybit_ls_ratio.v > LONG_SHORT_RATIO_BEARISH_BIAS_MIN
                /\ binance_ls_account_ratio.v < LONG_SHORT_RATIO_BEARISH_BIAS_MAX
                /\ bybit_ls_ratio.v < LONG_SHORT_RATIO_BEARISH_BIAS_MAX
        THEN Block(TRUE, <<"Long/Short Ratio: high long bias">>)
        ELSE Block(FALSE, <<>>)

SellTakerVolume(binance_futures_data) ==
    LET taker_buy_sell_ratio == safe_get_nested(binance_futures_data, TakerPath, Num(50))
    IN  IF IsStr(taker_buy_sell_ratio) THEN Raises("TypeError")
        ELSE IF taker_buy_sell_ratio.v < TAKER_VOLUME_BEARISH_THRESHOLD
        THEN Block(TRUE, <<"Taker Volume: Sell Volume Dominant">>)
        ELSE Block(FALSE, <<>>)

-----------------------------------------------------------------------------
(* check_sell_confluence: flags, reasons and tier.  The three inputs are   *)
(* dereferenced without a None test: .get on None raises AttributeError.   *)

SellConfluences(classic_indicators, smc_signals, current_price, current_open_price, market_data_additional) ==
    LET ema_signal == Get(classic_indicators, "ema_signal", "None")
        macd_trend == Get(classic_indicators, "macd_trend", "None")
        stoch_signal == Get(classic_indicators, "stoch_signal", "None")
        bb_signal == Get(classic_indicators, "bb_signal", "None")
        rsi_value == Get(classic_indicators, "rsi", NoneV)
        bos_choch == Get(smc_signals, "bos_choch", EmptyDict)
        fvg_data == Get(smc_signals, "fvg", EmptyDict)
        order_block_data == Get(smc_signals, "order_block", EmptyDict)
        eq_zone_data == Get(smc_signals, "eq_zone", EmptyDict)
        binance_spot_data == Get(market_data_additional, "binance_spot", EmptyDict)
        binance_futures_data == Get(market_data_additional, "binance_futures", EmptyDict)
        bybit_data == Get(market_data_additional, "bybit", EmptyDict)
        missing == IsNone(classic_indicators) \/ IsNone(smc_signals)
                     \/ IsNone(market_data_additional)
        priced == ~IsNone(current_price) /\ ~IsNone(current_open_price)
        P == current_price.v
        O == current_open_price.v
        \* classic indicators
        ema_bearish_trend == ema_signal \in {"strong_bearish", "bearish"}
        macd_bearish_momentum == macd_trend = "bearish"
        rsi_not_oversold == ~IsNone(rsi_value) /\ rsi_value.v > 30
        rsi_overbought == rsi_not_oversold /\ rsi_value.v > 70
        stoch_bearish_momentum == stoch_signal \in {"bearish", "overbought_bearish_cross"}
        bb_bearish_signal ==
            bb_signal \in {"cross_below_middle", "bounce_from_upper",
                           "cross_below_upper_band", "outside_upper_band"}
        \* SMC signals
        bos_type == Get(bos_choch, "type", "None")
        smc_structure_break ==
            bos_type \in {"bearish_bos", "bearish_choch", "bearish_choch_potential"}
        fvg_zone == Get(fvg_data, "zone", <<>>)
        fvg_bearish_presence ==
            /\ Truthy(fvg_data) /\ Get(fvg_data, "type", "None") = "bearish_fvg"
            /\ fvg_zone # <<>>
        price_reacting_to_fvg ==
            /\ fvg_bearish_presence /\ priced
            /\ \/ _is_price_in_zone(P, fvg_zone)
               \/ _is_price_entering_zone(O, P, fvg_zone)
        bearish_ob_data == Get(order_block_data, "bearish_ob", NoneV)
        ob_bearish_presence ==
            /\ Truthy(bearish_ob_data)
            /\ "low" \in DOMAIN bearish_ob_data /\ "high" \in DOMAIN bearish_ob_data
        ob_zone == <<bearish_ob_data.low, bearish_ob_data.high>>
        price_reacting_to_ob ==
            /\ ob_bearish_presence /\ priced
            /\ \/ _is_price_near_zone(P, ob_zone, PRICE_NEAR_ZONE_TOLERANCE_OB)
               \/ _is_price_entering_zone(O, P, ob_zone)
        eq_high == Get(eq_zone_data, "eq_high", <<>>)
        last_eq_high_level == SeqMin(eq_high)
        eq_high_swept ==
            /\ eq_high # <<>> /\ priced
            /\ O > last_eq_high_level /\ P < last_eq_high_level
            /\ P * 1000 > last_eq_high_level * 995
        eq_high_near ==
            /\ eq_high # <<>> /\ priced /\ ~eq_high_swept
            /\ _is_price_near_zone(P, <<last_eq_high_level, last_eq_high_level>>, 1)
        liquidity_grab_high == eq_high_swept \/ eq_high_near
        \* a price that is None is compared with a zone bound
        unpriced == IF ~priced /\ (fvg_bearish_presence \/ ob_bearish_presence
                                     \/ eq_high # <<>>)
                    THEN "TypeError" ELSE "none"
        \* auxiliary market data
        orderbook == SellOrderbook(binance_spot_data, current_price)
        funding == SellFundingRate(binance_futures_data, bybit_data)
        oi == SellOpenInterest(binance_futures_data, bybit_data,
                               current_price, current_open_price)
        ls == SellLongShortRatio(binance_futures_data, bybit_data)
        taker == SellTakerVolume(binance_futures_data)
    IN  IF missing
        THEN [exc |-> "AttributeError"]
        ELSE
        [ema_bearish_trend |-> ema_bearish_trend,
         macd_bearish_momentum |-> macd_bearish_momentum,
         rsi_not_oversold |-> rsi_not_oversold,
         stoch_bearish_momentum |-> stoch_bearish_momentum,
         smc_structure_break |-> smc_structure_break,
         fvg_bearish_presence |-> fvg_bearish_presence,
         ob_bearish_presence |-> ob_bearish_presence,
         price_reacting_to_fvg |-> price_reacting_to_fvg,
         price_reacting_to_ob |-> price_reacting_to_ob,
         liquidity_grab_high |-> liquidity_grab_high,
         bb_bearish_signal |-> bb_bearish_signal,
         ob_resistance_strong |-> orderbook.flag,
         funding_rate_bearish |-> funding.flag,
         oi_increasing_with_price_drop |-> oi.flag,
         long_short_ratio_bearish_divergence |-> ls.flag,
         taker_sell_volume_dominant |-> taker.flag,
         exc |-> FirstExc(<<unpriced, orderbook.exc, funding.exc, oi.exc, ls.exc,
                            taker.exc>>),
         reason |->
            Why(ema_bearish_trend, "EMA: Bearish Trend")
            \o Why(macd_bearish_momentum, "MACD: Bearish Momentum")
            \o Why(rsi_not_oversold, "RSI: Not Oversold")
            \o Why(rsi_overbought, "RSI: Overbought - Potential Reversal")
            \o Why(stoch_bearish_momentum, "Stoch RSI: Bearish Momentum/Crossover")
            \o Why(bb_bearish_signal, "BB: Bearish")
            \o Why(smc_structure_break, "SMC: Bearish Break Detected")
            \o Why(fvg_bearish_presence, "SMC: Bearish FVG Present")
            \o Why(price_reacting_to_fvg, "SMC: Price in/entering Bearish FVG (reaction)")
            \o Why(ob_bearish_presence, "SMC: Bearish OB Present")
            \o Why(price_reacting_to_ob, "SMC: Price near/in/entering Bearish OB (reaction)")
            \o Why(eq_high_swept, "SMC: Equal High swept and reversed (liquidity grab).")
            \o Why(eq_high_near, "SMC: Price near Equal High (potential liquidity).")
            \o orderbook.reason \o funding.reason \o oi.reason \o ls.reason
            \o taker.reason]

SellAdditional(c) ==
    CountTrue(<<c.ob_resistance_strong, c.funding_rate_bearish,
                c.oi_increasing_with_price_drop, c.long_short_ratio_bearish_divergence,
                c.taker_sell_volume_dominant>>)

SellStrong(c) ==
    /\ c.ema_bearish_trend /\ c.macd_bearish_momentum /\ c.rsi_not_oversold
    /\ c.stoch_bearish_momentum /\ c.smc_structure_break
    /\ (c.price_reacting_to_ob \/ c.price_reacting_to_fvg)
    /\ (c.liquidity_grab_high \/ c.bb_bearish_signal)
    /\ SellAdditional(c) >= 2

SellModerate(c) ==
    /\ c.ema_bearish_trend /\ c.smc_structure_break
    /\ (c.macd_bearish_momentum \/ c.stoch_bearish_momentum \/ c.bb_bearish_signal)
    /\ (c.price_reacting_to_ob \/ c.price_reacting_to_fvg \/ c.liquidity_grab_high)
    /\ SellAdditional(c) >= 1

SellPotential(c) ==
    /\ (c.price_reacting_to_ob \/ c.price_reacting_to_fvg \/ c.liquidity_grab_high)
    /\ (c.rsi_not_oversold \/ c.stoch_bearish_momentum \/ c.bb_bearish_signal)

SellTier(c) ==
    IF SellStrong(c) THEN "strong_sell"
    ELSE IF SellModerate(c) THEN "moderate_sell"
    ELSE IF SellPotential(c) THEN "potential_sell"
    ELSE "no_signal"

check_sell_confluence(classic_indicators, smc_signals, current_price, current_open_price, market_data_additional) ==
    LET c == SellConfluences(classic_indicators, smc_signals, current_price,
                             current_open_price, market_data_additional)
        type == SellTier(c)
    IN  IF c.exc # "none" THEN Raised(c.exc)
        ELSE Returned(type, c.reason \o TierReason(type))

-----------------------------------------------------------------------------
(* confluence_checker.py *)

\* a variant of the resolution in which a moderate buy wins over any sell
ResolutionBuyFirst(buy_result, sell_result) ==
    IF buy_result.type \in {"strong_buy", "moderate_buy"}
    THEN [overall_sentiment |-> "BULLISH", signals |-> buy_result.reason]
    ELSE IF sell_result.type \in {"strong_sell", "moderate_sell"}
    THEN [overall_sentiment |-> "BEARISH", signals |-> sell_result.reason]
    ELSE IF buy_result.type = "potential_buy" /\ sell_result.type = "no_signal"
    THEN [overall_sentiment |-> "NEUTRAL", signals |-> buy_result.reason]
    ELSE IF sell_result.type = "potential_sell" /\ buy_result.type = "no_signal"
    THEN [overall_sentiment |-> "NEUTRAL", signals |-> sell_result.reason]
    ELSE [overall_sentiment |-> "NEUTRAL",
          signals |-> <<"No clear dominant confluence signal detected.">>]

\* a variant of the resolution in which every equal-tier pair is CONFLICTING
ResolutionEqualTierConflicting(buy_result, sell_result) ==
    LET buy_type == buy_result.type
        sell_type == sell_result.type
        conflict == [overall_sentiment |-> "CONFLICTING",
                     signals |-> <<"Conflicting strong buy and strong sell signals. Market uncertainty.">>]
    IN  IF \/ buy_type = "strong_buy" /\ sell_type = "strong_sell"
           \/ buy_type = "moderate_buy" /\ sell_type = "moderate_sell"
           \/ buy_type = "potential_buy" /\ sell_type = "potential_sell"
        THEN conflict
        ELSE IF buy_type \in {"strong_buy", "moderate_buy"}
                /\ sell_type \notin {"strong_sell", "moderate_sell"}
        THEN [overall_sentiment |-> "BULLISH", signals |-> buy_result.reason]
        ELSE IF buy_type = "strong_buy"
        THEN [overall_sentiment |-> "BULLISH", signals |-> buy_result.reason]
        ELSE IF sell_type \in {"strong_sell", "moderate_sell"}
                /\ buy_type \notin {"strong_buy", "moderate_buy"}
        THEN [overall_sentiment |-> "BEARISH", signals |-> sell_result.reason]
        ELSE IF sell_type = "strong_sell"
        THEN [overall_sentiment |-> "BEARISH", signals |-> sell_result.reason]
        ELSE IF buy_type = "potential_buy" /\ sell_type = "no_signal"
        THEN [overall_sentiment |-> "NEUTRAL", signals |-> buy_result.reason]
        ELSE IF sell_type = "potential_sell" /\ buy_type = "no_signal"
        THEN [overall_sentiment |-> "NEUTRAL", signals |-> sell_result.reason]
        ELSE [overall_sentiment |-> "NEUTRAL",
              signals |-> <<"No clear dominant confluence signal detected.">>]

\* Bagian 3 of evaluate_market_confluence: the if-chain over the two tiers
Resolution(buy_result, sell_result) ==
    LET buy_type == buy_result.type
        sell_type == sell_result.type
    IN  IF buy_type = "strong_buy" /\ sell_type # "strong_sell"
        THEN [overall_sentiment |-> "BULLISH", signals |-> buy_result.reason]
        ELSE IF sell_type = "strong_sell" /\ buy_type # "strong_buy"
        THEN [overall_sentiment |-> "BEARISH", signals |-> sell_result.reason]
        ELSE IF buy_type = "strong_buy" /\ sell_type = "strong_sell"
        THEN [overall_sentiment |-> "CONFLICTING",
              signals |-> <<"Conflicting strong buy and strong sell signals. Market uncertainty.">>]
        ELSE IF buy_type = "moderate_buy" /\ sell_type \notin {"strong_sell", "moderate_sell"}
        THEN [overall_sentiment |-> "BULLISH", signals |-> buy_result.reason]
        ELSE IF sell_type = "moderate_sell" /\ buy_type \notin {"strong_buy", "moderate_buy"}
        THEN [overall_sentiment |-> "BEARISH", signals |-> sell_result.reason]
        ELSE IF buy_type = "moderate_buy" /\ sell_type = "moderate_sell"
        THEN [overall_sentiment |-> "NEUTRAL",
              signals |-> <<"Conflicting moderate buy and moderate sell signals.">>]
        ELSE IF buy_type = "potential_buy" /\ sell_type = "no_signal"
        THEN [overall_sentiment |-> "NEUTRAL", signals |-> buy_result.reason]
        ELSE IF sell_type = "potential_sell" /\ buy_type = "no_signal"
        THEN [overall_sentiment |-> "NEUTRAL", signals |-> sell_result.reason]
        ELSE [overall_sentiment |-> "NEUTRAL",
              signals |-> <<"No clear dominant confluence signal detected.">>]

\* an evaluator that was not called
NotCalled == [exc |-> "none", type |-> "not_called", reason |-> <<>>]

\* evaluate_market_confluence(market_data), Bagian 1 and 2: the call of
\* check_buy_confluence, which a missing price prevents
buy_strength(md) ==
    LET current_price == Get(md, "current_price", NoneV)
        current_open_price == Get(md, "current_open_price", NoneV)
    IN  IF IsNone(current_price) \/ IsNone(current_open_price)
        THEN NotCalled
        ELSE check_buy_confluence(Get(md, "classic_indicators", EmptyDict),
                                  Get(md, "smc_signals", EmptyDict),
                                  current_price, current_open_price,
                                  Get(md, "market_data_additional", EmptyDict))

\* the call of check_sell_confluence, which a missing price or an exception
\* of check_buy_confluence prevents
sell_strength(md, buy) ==
    LET current_price == Get(md, "current_price", NoneV)
        current_open_price == Get(md, "current_open_price", NoneV)
    IN  IF IsNone(current_price) \/ IsNone(current_open_price) \/ buy.exc # "none"
        THEN NotCalled
        ELSE check_sell_confluence(Get(md, "classic_indicators", EmptyDict),
                                   Get(md, "smc_signals", EmptyDict),
                                   current_price, current_open_price,
                                   Get(md, "market_data_additional", EmptyDict))

\* what evaluate_market_confluence returns, given the results of the two
\* evaluators; exc names the exception that leaves the call, if any
Resolve(md, buy, sell) ==
    IF IsNone(Get(md, "current_price", NoneV))
       \/ IsNone(Get(md, "current_open_price", NoneV))
    THEN [exc |-> "none", overall_sentiment |-> "NO_DATA",
          signals |-> <<"Error: Missing current price data">>]
    ELSE IF buy.exc # "none"
    THEN [exc |-> buy.exc, overall_sentiment |-> "raised", signals |-> <<>>]
    ELSE IF sell.exc # "none"
    THEN [exc |-> sell.exc, overall_sentiment |-> "raised", signals |-> <<>>]
    ELSE [exc |-> "none"] @@ Resolution(buy, sell)

evaluate_market_confluence(md) ==
    Resolve(md, buy_strength(md), sell_strength(md, buy_strength(md)))

-----------------------------------------------------------------------------
(* The inputs of evaluate_market_confluence.  The shapes are those of the  *)
(* scenarios of confluence_checker.py (lines 120-235) and of the exchange  *)
(* responses collected by analyze_coin.                                    *)

\* a branch that holds one record inside a list, or an empty list
ListOf(key, leaf) ==
    IF IsNone(leaf) THEN List(<<>>) ELSE List(<<[t |-> "dict"] @@ (key :> leaf)>>)

\* a Bybit response {"result": {"list": [...]}}
BybitOf(key, leaf) ==
    [t |-> "dict", result |-> [t |-> "dict", list |-> ListOf(key, leaf)]]

SpotData(bids, asks) ==
    [t |-> "dict",
     orderbook |-> [t |-> "dict", bids |-> List(bids), asks |-> List(asks)]]

FuturesData(fr, oi, ls, tk) ==
    [t |-> "dict",
     funding_rate |-> ListOf("fundingRate", fr),
     open_interest |-> IF IsNone(oi) THEN EmptyDict
                       ELSE [t |-> "dict", openInterest |-> oi],
     long_short_account_ratio |-> ListOf("longShortRatio", ls),
     taker_buy_sell_volume |-> ListOf("buySellRatio", tk)]

BybitData(fr, oi, ls) ==
    [t |-> "dict",
     funding_rate |-> BybitOf("fundingRate", fr),
     open_interest |-> BybitOf("openInterest", oi),
     long_short_ratio |-> BybitOf("longShortRatio", ls)]

Additional(spot, futures, bybit) ==
    [t |-> "dict", binance_spot |-> spot, binance_futures |-> futures, bybit |-> bybit]

\* a leaf as the exchange sends it (a numeric string) or already parsed
Wire(x, as_string) == IF as_string THEN Str(x) ELSE Num(x)

Level(price, volume) == <<Str(price), Str(volume)>>

\* the auxiliary data of the scenarios, with as_string choosing the wire format
AuxBuyStrong(w) ==
    Additional(SpotData(<<Level(1929, 1000), Level(1928, 500)>>, <<>>),
               FuturesData(Wire(30, w), Wire(1500, w), NoneV, Wire(65, w)),
               BybitData(Wire(20, w), Wire(1300, w), Wire(98, w)))

AuxSellStrong(w) ==
    Additional(SpotData(<<>>, <<Level(1931, 1200), Level(1932, 600)>>),
               FuturesData(Wire(-20, w), Wire(1600, w), NoneV, Wire(35, w)),
               BybitData(Wire(-30, w), Wire(1400, w), Wire(115, w)))

AuxConflicting(w) ==
    Additional(SpotData(<<Level(1929, 1000)>>, <<Level(1931, 1200)>>),
               FuturesData(Wire(30, w), Wire(1500, w), NoneV, Wire(65, w)),
               BybitData(Wire(-30, w), Wire(1400, w), Wire(115, w)))

AuxNeutral ==
    Additional(SpotData(<<>>, <<>>),
               FuturesData(NoneV, NoneV, NoneV, NoneV),
               BybitData(NoneV, NoneV, NoneV))

\* one-sided data: a wall on one side of the book and a long/short ratio
\* outside every bias band
AuxWalls(bid_volume, ask_volume, ls) ==
    Additional(SpotData(<<Level(1929, bid_volume)>>, <<Level(1931, ask_volume)>>),
               FuturesData(NoneV, NoneV, Num(ls), NoneV),
               BybitData(NoneV, NoneV, NoneV))

AdditionalInputs ==
    {NoneV, EmptyDict, AuxNeutral}
    \cup {AuxBuyStrong(w) : w \in BOOLEAN}
    \cup {AuxSellStrong(w) : w \in BOOLEAN}
    \cup {AuxConflicting(w) : w \in BOOLEAN}
    \cup {AuxWalls(b, a, r) : b \in {1000, 20000}, a \in {1000, 20000}, r \in {115, 130}}

\* the subset combined with every indicator and structure input
AdditionalWide == {EmptyDict, AuxBuyStrong(FALSE), AuxSellStrong(FALSE),
                   AuxWalls(1000, 1000, 130)}

EmaSignals == {"bullish", "bearish", "neutral"}
MacdTrends == {"bullish", "bearish"}
RsiValues == {20, 55, 80}
StochSignals == {"bullish", "bearish"}
BbSignals == {"cross_above_middle", "cross_below_middle"}

Classic(e, m, r, s, b) ==
    [t |-> "dict", ema_signal |-> e, macd_trend |-> m, rsi |-> Num(r),
     stoch_signal |-> s, bb_signal |-> b]

ClassicInputs ==
    {NoneV} \cup
    {Classic(e, m, r, s, b) :
        e \in EmaSignals, m \in MacdTrends, r \in RsiValues,
        s \in StochSignals, b \in BbSignals}

\* the classic_indicators of the scenarios
ClassicScenarios ==
    {NoneV,
     Classic("strong_bullish", "bullish", 55, "bullish", "cross_above_middle"),
     Classic("strong_bearish", "bearish", 45, "bearish", "cross_below_middle"),
     Classic("neutral", "neutral", 50, "neutral", "normal")}

BosTypes == {"bullish_choch", "bearish_choch", "no_signal"}

Fvg(type, zone) == [t |-> "dict", type |-> type, zone |-> zone]
Ob(low, high) == [t |-> "dict", low |-> low, high |-> high]

Smc(b, f, bo, be, el, eh) ==
    [t |-> "dict",
     bos_choch |-> [t |-> "dict", type |-> b],
     fvg |-> f,
     order_block |-> [t |-> "dict", bullish_ob |-> bo, bearish_ob |-> be],
     eq_zone |-> [t |-> "dict", eq_low |-> el, eq_high |-> eh]]

FvgInputs == {Fvg("no_fvg", <<>>), Fvg("bullish_fvg", <<1900, 1950>>),
              Fvg("bearish_fvg", <<1910, 1960>>)}
BullishObInputs == {NoneV, Ob(1880, 1920)}
BearishObInputs == {NoneV, Ob(1940, 1980)}
EqLowInputs == {<<>>, <<1800, 1929>>}
EqHighInputs == {<<>>, <<1931, 2060>>}

SmcInputs ==
    {NoneV, EmptyDict} \cup
    {Smc(b, f, bo, be, el, eh) :
        b \in BosTypes, f \in FvgInputs, bo \in BullishObInputs,
        be \in BearishObInputs, el \in EqLowInputs, eh \in EqHighInputs}

\* the smc_signals of the scenarios (prices of the scenarios times ten)
SmcScenarios ==
    {NoneV, EmptyDict,
     Smc("bullish_choch", Fvg("bullish_fvg", <<1900, 1950>>), Ob(1880, 1920), NoneV,
         <<1800, 1805>>, <<>>),
     Smc("bearish_choch", Fvg("bearish_fvg", <<1910, 1960>>), NoneV, Ob(1940, 1980),
         <<>>, <<2055, 2060>>),
     Smc("bullish_choch", Fvg("bullish_fvg", <<1900, 1950>>), Ob(1880, 1920),
         Ob(1960, 1990), <<1800>>, <<2000>>)}

\* (current_price, current_open_price) of the last bar
PriceInputs ==
    {<<Num(1930), Num(1910)>>, <<Num(1930), Num(1950)>>, <<Num(1925), Num(1870)>>,
     <<Num(1935), Num(1990)>>, <<NoneV, NoneV>>}

PriceWide == {<<Num(1930), Num(1910)>>, <<Num(1930), Num(1950)>>}

MarketData(ci, smc, px, mda) ==
    [t |-> "dict", classic_indicators |-> ci, smc_signals |-> smc,
     current_price |-> px[1], current_open_price |-> px[2],
     market_data_additional |-> mda]

\* Skenario BELI Kuat, as written (as_string) or with its leaves parsed
mock_data_buy_strong(as_string) ==
    MarketData(Classic("strong_bullish", "bullish", 55, "bullish", "cross_above_middle"),
               Smc("bullish_choch", Fvg("bullish_fvg", <<1900, 1950>>), Ob(1880, 1920),
                   NoneV, <<1800, 1805>>, <<>>),
               <<Num(1930), Num(1910)>>, AuxBuyStrong(as_string))

\* Skenario Konflik (Strong Buy dan Strong Sell), as written (as_string) or
\* with its leaves parsed
mock_data_conflicting(as_string) ==
    MarketData(Classic("strong_bullish", "bullish", 55, "bullish", "cross_above_middle"),
               Smc("bullish_choch", Fvg("bullish_fvg", <<1900, 1950>>), Ob(1880, 1920),
                   Ob(1960, 1990), <<1800>>, <<2000>>),
               <<Num(1930), Num(1910)>>, AuxConflicting(as_string))

-----------------------------------------------------------------------------
(* The confluence engine as a state machine: one call of                   *)
(* evaluate_market_confluence on one market_data.                          *)

NoSeries == <<>>
NoSwings == [swing_highs |-> <<>>, swing_lows |-> <<>>]
\* fvg_info as detect_fvg initialises it
NoFvg == [type |-> "no_fvg", zone |-> <<>>, timestamp |-> NoneV, all_unmitigated_fvg |-> <<>>]
\* bos_info as detect_bos_choch initialises it
NoBosChoch ==
    [type |-> "no_signal", level |-> NoneV, direction |-> NoneV, timestamp |-> NoneV,
     current_bias |-> "ranging"]
\* order_block_info as detect_order_block initialises it
NoOrderBlock == [bullish_ob |-> NoneV, bearish_ob |-> NoneV]
\* no price is held against a zone
NoZoneCheck == [checked |-> FALSE]
\* no plan yet: generate_trading_signal has not been called
NotBuilt == [exc |-> "none", signal |-> "not_built"]

\* a DataFrame without rows and columns
NoFrame == [columns |-> <<>>, bars |-> <<>>]

\* no DataFrame was handed to calculate_indicators or analyze_smc_structure
NoAnalyzerCall == price_df = NoFrame /\ ta_output = NoneV /\ calls = <<>>

Init ==
    /\ \/ \E ci \in ClassicInputs, smc \in SmcInputs, px \in PriceWide,
             mda \in AdditionalWide :
               market_data = MarketData(ci, smc, px, mda)
       \/ \E ci \in ClassicScenarios, smc \in SmcScenarios, px \in PriceInputs,
             mda \in AdditionalInputs :
               market_data = MarketData(ci, smc, px, mda)
    /\ pc = "ready"
    /\ buy_strength_result = NotCalled
    /\ sell_strength_result = NotCalled
    /\ confluence_result = [exc |-> "none", overall_sentiment |-> "pending", signals |-> <<>>]
    /\ ohlcv_df = NoSeries
    /\ min_bars = 0
    /\ swing_result = NoSwings
    /\ fvg_result = NoFvg
    /\ bos_choch_result = NoBosChoch
    /\ order_block_result = NoOrderBlock
    /\ trading_plan = NotBuilt
    /\ detailed_signal = NotBuilt
    /\ zone_check = NoZoneCheck
    /\ NoAnalyzerCall

EvaluateMarketConfluence ==
    /\ pc = "ready"
    /\ buy_strength_result' = buy_strength(market_data)
    /\ sell_strength_result' = sell_strength(market_data, buy_strength_result')
    /\ confluence_result' = Resolve(market_data, buy_strength_result', sell_strength_result')
    /\ pc' = "done"
    /\ UNCHANGED <<market_data, ohlcv_df, min_bars, swing_result, fvg_result,
                   bos_choch_result, order_block_result, trading_plan, detailed_signal,
                   zone_check,
                   price_df, ta_output, calls>>

Next == EvaluateMarketConfluence

Spec == Init /\ [][Next]_vars

-----------------------------------------------------------------------------
(* analyzers/smc_structure.py.  A DataFrame is a sequence of bars          *)
(* [high, low, timestamp]; a bar is addressed by its position 1..Len(df),  *)
(* its index label is its timestamp.                                       *)

\* df['high'] == df['high'].rolling(window=2m+1, center=True).max() at bar i:
\* the rolling maximum is NaN where the window is not complete
is_swing_high(df, min_bars_between_swings, i) ==
    /\ i - min_bars_between_swings >= 1
    /\ i + min_bars_between_swings <= Len(df)
    /\ \A k \in (i - min_bars_between_swings)..(i + min_bars_between_swings) :
            df[k].high <= df[i].high

is_swing_low(df, min_bars_between_swings, i) ==
    /\ i - min_bars_between_swings >= 1
    /\ i + min_bars_between_swings <= Len(df)
    /\ \A k \in (i - min_bars_between_swings)..(i + min_bars_between_swings) :
            df[k].low >= df[i].low

\* sorted(potential_highs + potential_lows) from bar i on: a bar that is both
\* a potential high and a potential low is listed twice
RECURSIVE all_potential_swings(_, _, _)
all_potential_swings(df, min_bars_between_swings, i) ==
    IF i > Len(df) THEN <<>>
    ELSE (IF is_swing_high(df, min_bars_between_swings, i) THEN <<i>> ELSE <<>>)
         \o (IF is_swing_low(df, min_bars_between_swings, i) THEN <<i>> ELSE <<>>)
         \o all_potential_swings(df, min_bars_between_swings, i + 1)

\* s with its last element replaced
ReplaceLast(s, x) == [s EXCEPT ![Len(s)] = x]

\* the locals of the loop before the first candidate; last_swing_idx is a
\* position, 0 standing for None
NoSwingYet ==
    [swing_highs |-> <<>>, swing_lows |-> <<>>, last_swing_type |-> "None",
     last_swing_idx |-> 0]

\* a variant of the loop body that lets a swing follow one of its own kind
SwingStepSameKind(df, min_bars_between_swings, st, current_idx) ==
    LET is_current_high == is_swing_high(df, min_bars_between_swings, current_idx)
        stamp == df[current_idx].timestamp
    IN  IF is_current_high
        THEN [st EXCEPT !.swing_highs = Append(@, stamp), !.last_swing_type = "high",
                        !.last_swing_idx = current_idx]
        ELSE [st EXCEPT !.swing_lows = Append(@, stamp), !.last_swing_type = "low",
                        !.last_swing_idx = current_idx]

\* a variant of the loop body without the distance filter
SwingStepAnyDistance(df, min_bars_between_swings, st, current_idx) ==
    LET is_current_high == is_swing_high(df, min_bars_between_swings, current_idx)
        is_current_low == is_swing_low(df, min_bars_between_swings, current_idx)
        stamp == df[current_idx].timestamp
    IN  IF is_current_high /\ st.last_swing_type # "high"
        THEN [st EXCEPT !.swing_highs = Append(@, stamp), !.last_swing_type = "high",
                        !.last_swing_idx = current_idx]
        ELSE IF is_current_low /\ st.last_swing_type # "low"
        THEN [st EXCEPT !.swing_lows = Append(@, stamp), !.last_swing_type = "low",
                        !.last_swing_idx = current_idx]
        ELSE st

\* one pass of the loop over all_potential_swings
SwingStep(df, min_bars_between_swings, st, current_idx) ==
    LET current_candle == df[current_idx]
        is_current_high == is_swing_high(df, min_bars_between_swings, current_idx)
        is_current_low == is_swing_low(df, min_bars_between_swings, current_idx)
        stamp == current_candle.timestamp
        last_candle == df[st.last_swing_idx]
        \* (current_idx - last_swing_idx) / (df.index[1] - df.index[0])
        \*     < min_bars_between_swings
        too_close ==
            stamp - last_candle.timestamp
                < min_bars_between_swings * (df[2].timestamp - df[1].timestamp)
    IN  IF st.last_swing_idx = 0
        THEN IF is_current_high
             THEN [st EXCEPT !.swing_highs = Append(@, stamp),
                             !.last_swing_type = "high", !.last_swing_idx = current_idx]
             ELSE IF is_current_low
             THEN [st EXCEPT !.swing_lows = Append(@, stamp),
                             !.last_swing_type = "low", !.last_swing_idx = current_idx]
             ELSE [st EXCEPT !.last_swing_idx = current_idx]
        ELSE IF too_close
        THEN IF is_current_high /\ st.last_swing_type = "high"
                /\ current_candle.high > last_candle.high
             THEN [st EXCEPT !.swing_highs = ReplaceLast(@, stamp),
                             !.last_swing_idx = current_idx]
             ELSE IF is_current_low /\ st.last_swing_type = "low"
                     /\ current_candle.low < last_candle.low
             THEN [st EXCEPT !.swing_lows = ReplaceLast(@, stamp),
                             !.last_swing_idx = current_idx]
             ELSE st
        ELSE IF is_current_high /\ st.last_swing_type # "high"
        THEN [st EXCEPT !.swing_highs = Append(@, stamp), !.last_swing_type = "high",
                        !.last_swing_idx = current_idx]
        ELSE IF is_current_low /\ st.last_swing_type # "low"
        THEN [st EXCEPT !.swing_lows = Append(@, stamp), !.last_swing_type = "low",
                        !.last_swing_idx = current_idx]
        ELSE st

\* the loop from the k-th candidate on
RECURSIVE SwingLoop(_, _, _, _, _)
SwingLoop(df, min_bars_between_swings, candidates, k, st) ==
    IF k > Len(candidates) THEN st
    ELSE SwingLoop(df, min_bars_between_swings, candidates, k + 1,
                   SwingStep(df, min_bars_between_swings, st, candidates[k]))

find_significant_swing_points(df, min_bars_between_swings) ==
    LET st == SwingLoop(df, min_bars_between_swings,
                        all_potential_swings(df, min_bars_between_swings, 1), 1,
                        NoSwingYet)
    IN  [swing_highs |-> st.swing_highs, swing_lows |-> st.swing_lows]

\* the three candles at positions i, i+1, i+2: the gap they form, if any
GapAt(df, i) ==
    LET candle1 == df[i]
        candle2 == df[i + 1]
        candle3 == df[i + 2]
    IN  IF candle1.high < candle3.low
        THEN [type |-> "bullish_fvg", zone |-> <<candle1.high, candle3.low>>,
              timestamp |-> Num(candle2.timestamp)]
        ELSE IF candle1.low > candle3.high
        THEN [type |-> "bearish_fvg", zone |-> <<candle3.high, candle1.low>>,
              timestamp |-> Num(candle2.timestamp)]
        ELSE [type |-> "no_fvg", zone |-> <<>>, timestamp |-> NoneV]

\* a variant of the mitigation scan that looks at the latest candle only
is_mitigated_latest_candle(df, i) ==
    LET fvg_zone == GapAt(df, i).zone
    IN  /\ i + 3 <= Len(df)
        /\ df[Len(df)].low <= fvg_zone[2] /\ df[Len(df)].high >= fvg_zone[1]

\* a variant of the mitigation scan that starts at the third candle of the gap
is_mitigated_from_third_candle(df, i) ==
    LET fvg_zone == GapAt(df, i).zone
    IN  \E j \in (i + 2)..Len(df) :
            df[j].low <= fvg_zone[2] /\ df[j].high >= fvg_zone[1]

\* the forward scan from the fourth candle to the end of the DataFrame
is_mitigated(df, i) ==
    LET fvg_zone == GapAt(df, i).zone
    IN  \E j \in (i + 3)..Len(df) :
            df[j].low <= fvg_zone[2] /\ df[j].high >= fvg_zone[1]

\* unmitigated_fvg_list from position i down to the first bar: newest first
RECURSIVE unmitigated_fvg_list(_, _)
unmitigated_fvg_list(df, i) ==
    IF i < 1 THEN <<>>
    ELSE (IF GapAt(df, i).type # "no_fvg" /\ ~is_mitigated(df, i)
          THEN <<GapAt(df, i)>> ELSE <<>>)
         \o unmitigated_fvg_list(df, i - 1)

\* a variant that keeps the order in which the backward scan appended
AsAppended(s) == s

\* s[::-1]
Reversed(s) == [k \in DOMAIN s |-> s[Len(s) + 1 - k]]

detect_fvg(df) ==
    IF Len(df) < 3 THEN NoFvg
    ELSE LET newest_first == unmitigated_fvg_list(df, Len(df) - 2)
         IN  IF newest_first = <<>> THEN NoFvg
             ELSE [type |-> newest_first[1].type, zone |-> newest_first[1].zone,
                   timestamp |-> newest_first[1].timestamp,
                   all_unmitigated_fvg |-> Reversed(newest_first)]

\* df.loc[timestamp]: the position of the bar with that index label
Loc(df, timestamp) == CHOOSE i \in DOMAIN df : df[i].timestamp = timestamp

\* timestamp in df.index
InIndex(df, timestamp) == \E i \in DOMAIN df : df[i].timestamp = timestamp

\* min_break_threshold of the call in analyze_smc_structure, in 1e-4
MIN_BREAK_THRESHOLD == 2

\* a variant of the break test that reads a close above the last swing high
\* as a continuation whatever the bias
BreakUpAlwaysBos(current_bias) == "bullish_bos"

\* the event of a close above the last swing high
BreakUp(current_bias) ==
    IF current_bias = "bullish" THEN "bullish_bos"
    ELSE IF current_bias \in {"bearish", "ranging"} THEN "bullish_choch"
    ELSE "no_signal"

\* the event of a close below the last swing low
BreakDown(current_bias) ==
    IF current_bias = "bearish" THEN "bearish_bos"
    ELSE IF current_bias \in {"bullish", "ranging"} THEN "bearish_choch"
    ELSE "no_signal"

detect_bos_choch(df, swing_points, min_break_threshold) ==
    LET current_candle_time == df[Len(df)].timestamp
        current_close == df[Len(df)].close
        relevant_highs_timestamps ==
            SelectSeq(swing_points.swing_highs, LAMBDA ts : ts < current_candle_time)
        relevant_lows_timestamps ==
            SelectSeq(swing_points.swing_lows, LAMBDA ts : ts < current_candle_time)
        nh == Len(relevant_highs_timestamps)
        nl == Len(relevant_lows_timestamps)
        last_swing_high_price == df[Loc(df, relevant_highs_timestamps[nh])].high
        second_last_swing_high_price == df[Loc(df, relevant_highs_timestamps[nh - 1])].high
        last_swing_low_price == df[Loc(df, relevant_lows_timestamps[nl])].low
        second_last_swing_low_price == df[Loc(df, relevant_lows_timestamps[nl - 1])].low
        is_bullish_structure ==
            /\ last_swing_high_price > second_last_swing_high_price
            /\ last_swing_low_price > second_last_swing_low_price
        is_bearish_structure ==
            /\ last_swing_high_price < second_last_swing_high_price
            /\ last_swing_low_price < second_last_swing_low_price
        current_bias ==
            IF is_bullish_structure THEN "bullish"
            ELSE IF is_bearish_structure THEN "bearish"
            ELSE "ranging"
    IN  IF nh < 2 \/ nl < 2 THEN NoBosChoch
        \* current_close > last_swing_high_price * (1 + min_break_threshold)
        ELSE IF current_close * 10000 > last_swing_high_price * (10000 + min_break_threshold)
        THEN [type |-> BreakUp(current_bias), level |-> Num(last_swing_high_price),
              direction |-> Str("up"), timestamp |-> Num(current_candle_time),
              current_bias |-> current_bias]
        \* current_close < last_swing_low_price * (1 - min_break_threshold)
        ELSE IF current_close * 10000 < last_swing_low_price * (10000 - min_break_threshold)
        THEN [type |-> BreakDown(current_bias), level |-> Num(last_swing_low_price),
              direction |-> Str("down"), timestamp |-> Num(current_candle_time),
              current_bias |-> current_bias]
        ELSE [NoBosChoch EXCEPT !.current_bias = current_bias]

\* the number of candles searched before the candle of the break
OB_SEARCH_WINDOW == 10

\* the order block dict built from the candidate candle
OrderBlock(candle, type, candle_type) ==
    [t |-> "dict", start_time |-> Num(candle.timestamp), high |-> candle.high,
     low |-> candle.low, type |-> type, candle_type |-> candle_type,
     mitigated |-> FALSE]

\* the guard shared by both searches: break and gap are stamped with bars of df
BreakAndGapStamped(df, bos_choch_info, fvg_info) ==
    /\ Truthy(bos_choch_info.timestamp) /\ Truthy(fvg_info.timestamp)
    /\ InIndex(df, bos_choch_info.timestamp.v) /\ InIndex(df, fvg_info.timestamp.v)

\* the positions of search_df: the candle of the break and the ten before it
SearchWindow(df, bos_choch_info) ==
    LET idx_break == Loc(df, bos_choch_info.timestamp.v)
    IN  MaxOf(1, idx_break - OB_SEARCH_WINDOW)..idx_break

\* the largest position of a non-empty set of positions
LastOf(positions) == CHOOSE i \in positions : \A j \in positions : j <= i

bullish_ob(df, bos_choch_info, fvg_info) ==
    IF /\ bos_choch_info.type \in {"bullish_bos", "bullish_choch"}
       /\ fvg_info.type = "bullish_fvg"
       /\ BreakAndGapStamped(df, bos_choch_info, fvg_info)
    THEN LET bearish_candles ==
                 {i \in SearchWindow(df, bos_choch_info) : df[i].close < df[i].open}
             candidate == LastOf(bearish_candles)
         IN  IF bearish_candles = {} THEN NoneV
             ELSE IF /\ df[Len(df)].timestamp > df[candidate].timestamp
                     \* df.loc[candidate.name:current_candle_time]: both ends included
                     /\ ~\E j \in candidate..Len(df) : df[j].low <= df[candidate].high
             THEN OrderBlock(df[candidate], "bullish", "bearish_candle_before_bullish_move")
             ELSE NoneV
    ELSE NoneV

bearish_ob(df, bos_choch_info, fvg_info) ==
    IF /\ bos_choch_info.type \in {"bearish_bos", "bearish_choch"}
       /\ fvg_info.type = "bearish_fvg"
       /\ BreakAndGapStamped(df, bos_choch_info, fvg_info)
    THEN LET bullish_candles ==
                 {i \in SearchWindow(df, bos_choch_info) : df[i].close > df[i].open}
             candidate == LastOf(bullish_candles)
         IN  IF bullish_candles = {} THEN NoneV
             ELSE IF /\ df[Len(df)].timestamp > df[candidate].timestamp
                     /\ ~\E j \in candidate..Len(df) : df[j].high >= df[candidate].low
             THEN OrderBlock(df[candidate], "bearish", "bullish_candle_before_bearish_move")
             ELSE NoneV
    ELSE NoneV

detect_order_block(df, bos_choch_info, fvg_info) ==
    [bullish_ob |-> bullish_ob(df, bos_choch_info, fvg_info),
     bearish_ob |-> bearish_ob(df, bos_choch_info, fvg_info)]

-----------------------------------------------------------------------------
(* The structure analysis as a state machine: the series grows by one      *)
(* candle and is analysed again.                                           *)

\* the longest series holds one full rolling window and MaxExtraBars more bars
MaxExtraBars == 2

MaxBars(min_bars_between_swings) == 2 * min_bars_between_swings + 1 + MaxExtraBars

\* (low, high) of a candle
Candles == {<<0, 1>>, <<1, 2>>, <<2, 3>>, <<0, 4>>, <<3, 5>>}

MinBarsInputs == {1, 2}

\* the time from the last candle to the next one: every interval is one unit,
\* but the first may be longer
Intervals(series) == IF Len(series) = 1 THEN {1, 3} ELSE {1}

InitSeries ==
    /\ ohlcv_df = NoSeries
    /\ min_bars \in MinBarsInputs
    /\ swing_result = NoSwings
    /\ fvg_result = NoFvg
    /\ bos_choch_result = NoBosChoch
    /\ order_block_result = NoOrderBlock
    /\ trading_plan = NotBuilt
    /\ detailed_signal = NotBuilt
    /\ zone_check = NoZoneCheck
    /\ NoAnalyzerCall
    /\ market_data = EmptyDict
    /\ pc = "series"
    /\ buy_strength_result = NotCalled
    /\ sell_strength_result = NotCalled
    /\ confluence_result = [exc |-> "none", overall_sentiment |-> "pending", signals |-> <<>>]

\* a new candle closes and the series is analysed
AnalyzeNextCandle ==
    /\ pc = "series"
    /\ Len(ohlcv_df) < MaxBars(min_bars)
    /\ \E candle \in Candles, interval \in Intervals(ohlcv_df) :
        ohlcv_df' = Append(ohlcv_df, [low |-> candle[1], high |-> candle[2],
                          timestamp |-> IF ohlcv_df = <<>> THEN 1
                                        ELSE ohlcv_df[Len(ohlcv_df)].timestamp + interval])
    /\ swing_result' = find_significant_swing_points(ohlcv_df', min_bars)
    /\ fvg_result' = detect_fvg(ohlcv_df')
    /\ UNCHANGED <<market_data, pc, min_bars, buy_strength_result, sell_strength_result,
                   confluence_result, bos_choch_result, order_block_result, trading_plan,
                   detailed_signal, zone_check,
                   price_df, ta_output, calls>>

NextSeries == AnalyzeNextCandle

SpecSeries == InitSeries /\ [][NextSeries]_vars

-----------------------------------------------------------------------------
(* The whole structure analysis on candles with open and close: swing      *)
(* points, break of structure, fair value gap and order block of a growing *)
(* series.                                                                 *)

\* the number of candles that close during the observation
MaxStructureBars == 6

\* min_bars_between_swings of the analysis, scaled down with the series
StructureMinBars == 1

\* (open, high, low, close) of a candle
StructureCandles ==
    {<<1, 1, 0, 0>>, <<3, 5, 3, 5>>, <<3, 3, 2, 2>>, <<4, 6, 4, 6>>, <<4, 4, 3, 3>>,
     <<5, 7, 5, 7>>}

Bar(candle, timestamp) ==
    [open |-> candle[1], high |-> candle[2], low |-> candle[3], close |-> candle[4],
     timestamp |-> timestamp]

\* the candles already closed when the observation starts: none, or a decline
\* that ends in a flat candle
StructureHistory ==
    <<Bar(<<3, 3, 2, 2>>, 1), Bar(<<3, 3, 2, 2>>, 2), Bar(<<1, 1, 0, 0>>, 3),
      Bar(<<1, 1, 0, 0>>, 4), Bar(<<1, 1, 1, 1>>, 5)>>

StructureHistories == {NoSeries, StructureHistory}

\* the number of candles of a series that closed during the observation
ClosedSince(series) ==
    IF Len(series) >= Len(StructureHistory)
            /\ SubSeq(series, 1, Len(StructureHistory)) = StructureHistory
    THEN Len(series) - Len(StructureHistory)
    ELSE Len(series)

InitStructure ==
    /\ ohlcv_df \in StructureHistories
    /\ min_bars = StructureMinBars
    /\ swing_result = find_significant_swing_points(ohlcv_df, min_bars)
    /\ fvg_result = detect_fvg(ohlcv_df)
    /\ bos_choch_result =
            IF ohlcv_df = NoSeries THEN NoBosChoch
            ELSE detect_bos_choch(ohlcv_df, swing_result, MIN_BREAK_THRESHOLD)
    /\ order_block_result =
            IF ohlcv_df = NoSeries THEN NoOrderBlock
            ELSE detect_order_block(ohlcv_df, bos_choch_result, fvg_result)
    /\ trading_plan = NotBuilt
    /\ detailed_signal = NotBuilt
    /\ zone_check = NoZoneCheck
    /\ NoAnalyzerCall
    /\ market_data = EmptyDict
    /\ pc = "structure"
    /\ buy_strength_result = NotCalled
    /\ sell_strength_result = NotCalled
    /\ confluence_result = [exc |-> "none", overall_sentiment |-> "pending", signals |-> <<>>]

\* a new candle closes and analyze_smc_structure runs on the series
AnalyzeSmcStructure ==
    /\ pc = "structure"
    /\ ClosedSince(ohlcv_df) < MaxStructureBars
    /\ \E candle \in StructureCandles :
        ohlcv_df' = Append(ohlcv_df, Bar(candle, Len(ohlcv_df) + 1))
    /\ swing_result' = find_significant_swing_points(ohlcv_df', min_bars)
    /\ bos_choch_result' = detect_bos_choch(ohlcv_df', swing_result', MIN_BREAK_THRESHOLD)
    /\ fvg_result' = detect_fvg(ohlcv_df')
    /\ order_block_result' = detect_order_block(ohlcv_df', bos_choch_result', fvg_result')
    /\ UNCHANGED <<market_data, pc, min_bars, buy_strength_result, sell_strength_result,
                   confluence_result, trading_plan, detailed_signal,
                   zone_check,
                   price_df, ta_output, calls>>

NextStructure == AnalyzeSmcStructure

SpecStructure == InitStructure /\ [][NextStructure]_vars

-----------------------------------------------------------------------------
(* The signal builders.  The prices of the inputs are in tenths; a price   *)
(* times a percentage, and with it every level of a plan, is a float in    *)
(* units of 1e-4, so that x * 0.99 is x * 990 and x itself is x * 1000.    *)
(* A float is [t |-> "float", v |-> units], NaN is [t |-> "nan"] and inf   *)
(* is [t |-> "inf"]; a quotient of two floats is kept exact.               *)

\* f"{x:.4f}" (digits = 4) or f"{x:.2f}" (digits = 2) if x is not None else
\* "N/A": the digits of x in units of 1e-4 or in hundredths, the last one
\* rounded to the nearest, ties to even
Format(x, digits) ==
    LET Rounded(num, den) ==
            LET q == num \div den
                r == num % den
            IN  IF 2 * r > den \/ (2 * r = den /\ q % 2 = 1) THEN q + 1 ELSE q
        per_digit == IF digits = 4 THEN 1 ELSE 100
    IN  CASE x.t = "none" -> Str("N/A")
          [] x.t = "nan" -> Str("nan")
          [] x.t = "inf" -> Str("inf")
          [] x.t = "float" -> [t |-> "fixed", digits |-> digits, v |-> Rounded(x.v, per_digit)]
          [] x.t = "quotient" ->
                [t |-> "fixed", digits |-> digits, v |-> Rounded(10000 * x.num, per_digit * x.den)]

\* df['low'].iloc[-5:-1].min() and df['high'].iloc[-5:-1].max(): the
\* extreme of the four candles before the last one, NaN when the last
\* candle is the only one
PreviousExtreme(df, column) ==
    LET previous == {i \in 1..(Len(df) - 1) : i >= Len(df) - 4}
        values == {df[i][column] : i \in previous}
    IN  IF previous = {} THEN [t |-> "nan"]
        ELSE Num(CHOOSE x \in values :
                    \A y \in values : IF column = "low" THEN x <= y ELSE x >= y)

\* lines 94-111: reward / risk, inf or 0.0 when the risk is not positive
\* (as it is when the stop-loss is NaN)
RiskReward(entry_price, stop_loss, take_profit) ==
    LET AbsDiff(a, b) ==
            IF a.t = "nan" \/ b.t = "nan" THEN [t |-> "nan"]
            ELSE [t |-> "float", v |-> IF a.v >= b.v THEN a.v - b.v ELSE b.v - a.v]
        Positive(x) == x.t = "float" /\ x.v > 0
        risk == AbsDiff(entry_price, stop_loss)
        reward == AbsDiff(take_profit, entry_price)
    IN  IF stop_loss.t = "none" \/ take_profit.t = "none" THEN NoneV
        ELSE IF Positive(risk) THEN [t |-> "quotient", num |-> reward.v, den |-> risk.v]
        ELSE IF Positive(reward) THEN [t |-> "inf"]
        ELSE [t |-> "float", v |-> 0]

\* generate_trading_signal of signals/signal_builder.py (symbol and
\* timeframe are copied into the plan and left out).  A current_price of
\* None is multiplied in line 65 or 78, or else formatted in line 124: each
\* of them is a TypeError.
generate_trading_signal(df, current_price, confluence) ==
    LET \* price * factor, the factor in thousandths
        Times(price, factor) ==
            IF price.t = "nan" THEN price ELSE [t |-> "float", v |-> price.v * factor]
        \* max(a, b) and min(a, b) of Python: b only if its comparison with a
        \* is true, which it never is when one of them is NaN
        PyMax(a, b) == IF a.t = "float" /\ b.t = "float" /\ b.v > a.v THEN b ELSE a
        PyMin(a, b) == IF a.t = "float" /\ b.t = "float" /\ b.v < a.v THEN b ELSE a
        overall_sentiment == confluence.overall_sentiment
        confluence_reasons == confluence.signals
        signal == CASE overall_sentiment = "BULLISH" -> "BUY"
                    [] overall_sentiment = "BEARISH" -> "SELL"
                    [] OTHER -> "HOLD"
        first_reason ==
            CASE overall_sentiment = "BULLISH" -> "Strong bullish confluence detected."
              [] overall_sentiment = "BEARISH" -> "Strong bearish confluence detected."
              [] overall_sentiment = "CONFLICTING" ->
                    "Conflicting signals detected. Advise to wait for clearer market direction."
              [] OTHER -> "Market is neutral or no strong signals detected."
        entry_price == Times(current_price, 1000)
        stop_loss ==
            IF df = <<>> THEN NoneV
            ELSE CASE signal = "BUY" ->
                        PyMax(Times(PreviousExtreme(df, "low"), 990),
                              Times(current_price, 980))
                   [] signal = "SELL" ->
                        PyMin(Times(PreviousExtreme(df, "high"), 1010),
                              Times(current_price, 1020))
                   [] OTHER -> NoneV
        take_profit ==
            IF df = <<>> THEN NoneV
            ELSE CASE signal = "BUY" -> Times(current_price, 1020)
                   [] signal = "SELL" -> Times(current_price, 980)
                   [] OTHER -> NoneV
        risk_reward_ratio == RiskReward(entry_price, stop_loss, take_profit)
    IN  IF IsNone(current_price)
        THEN [exc |-> "TypeError", signal |-> "raised"]
        ELSE [exc |-> "none",
              signal |-> signal,
              entry_price |-> Format(entry_price, 4),
              stop_loss |-> Format(stop_loss, 4),
              take_profit |-> Format(take_profit, 4),
              risk_reward_ratio |-> Format(risk_reward_ratio, 2),
              reason |-> <<first_reason>> \o confluence_reasons,
              confluence_sentiment |-> overall_sentiment,
              current_price |-> Format(entry_price, 4)]

\* check_buy_confluence(*args) and check_sell_confluence(*args) with
\* positional arguments only: a TypeError unless there is an argument for
\* each of the five parameters
BuyConfluenceCall(args) ==
    IF Len(args) # 5 THEN Raised("TypeError")
    ELSE check_buy_confluence(args[1], args[2], args[3], args[4], args[5])
SellConfluenceCall(args) ==
    IF Len(args) # 5 THEN Raised("TypeError")
    ELSE check_sell_confluence(args[1], args[2], args[3], args[4], args[5])

\* the detailed builder, lines 53-84: the low (high) of the last swing low
\* (high) that is not later than the last candle, None without one
LastSwingPrice(smc_signals, df, key, column) ==
    LET swing_points == Get(smc_signals, "swing_points", NoneV)
        relevant ==
            IF Truthy(swing_points) /\ key \in DOMAIN swing_points
            THEN SelectSeq(swing_points[key], LAMBDA ts : ts <= df[Len(df)].timestamp)
            ELSE <<>>
        last_swing_idx == relevant[Len(relevant)]
    IN  IF relevant # <<>> /\ InIndex(df, last_swing_idx)
        THEN Num(df[Loc(df, last_swing_idx)][column])
        ELSE NoneV

\* the order block of the side of a signal
SideOb(side, smc_signals) ==
    Get(Get(smc_signals, "order_block", EmptyDict),
        IF side = "BUY" THEN "bullish_ob" ELSE "bearish_ob", NoneV)

\* lines 100-116 and 140-155: the entry price of a BUY or SELL signal, in
\* units of 1e-4, and the reasons it adds
EntryPrice(side, smc_signals, current_price) ==
    LET ob == SideOb(side, smc_signals)
        fvg_data == Get(smc_signals, "fvg", EmptyDict)
        in_ob == /\ Truthy(ob) /\ "low" \in DOMAIN ob /\ "high" \in DOMAIN ob
                 /\ _is_price_in_zone(current_price.v, <<ob.low, ob.high>>)
        from_ob == IF in_ob THEN (ob.low + ob.high) * 500 ELSE current_price.v * 1000
        in_fvg == /\ Truthy(fvg_data)
                  /\ Get(fvg_data, "type", "None")
                        = (IF side = "BUY" THEN "bullish_fvg" ELSE "bearish_fvg")
                  /\ Get(fvg_data, "zone", <<>>) # <<>>
                  /\ _is_price_in_zone(current_price.v, fvg_data.zone)
        \* if entry_price == current_price: the entry is still the default
        from_fvg == from_ob = current_price.v * 1000 /\ in_fvg
    IN  [level |-> IF from_fvg THEN (fvg_data.zone[1] + fvg_data.zone[2]) * 500
                   ELSE from_ob,
         reason |-> (IF in_ob
                     THEN <<IF side = "BUY" THEN "Entry ideal di Bullish OB."
                            ELSE "Entry ideal di Bearish OB.">>
                     ELSE <<>>)
                    \o (IF from_fvg
                        THEN <<IF side = "BUY" THEN "Entry ideal di Bullish FVG."
                               ELSE "Entry ideal di Bearish FVG.">>
                        ELSE <<>>)]

\* lines 118-131 and 157-170: the stop-loss of a BUY or SELL signal and the
\* reason it adds
StopLoss(side, classic_indicators, smc_signals, df, current_price, entry_price) ==
    LET ob == SideOb(side, smc_signals)
        far == IF side = "BUY" THEN "low" ELSE "high"
        last_swing_price ==
            LastSwingPrice(smc_signals, df,
                           IF side = "BUY" THEN "swing_lows" ELSE "swing_highs", far)
        atr_value == Get(classic_indicators, "ATR", NoneV)
        buffer == IF side = "BUY" THEN 995 ELSE 1005
    IN  IF Truthy(ob) /\ far \in DOMAIN ob
        THEN [level |-> ob[far] * buffer,
              reason |-> IF side = "BUY" THEN "SL based on Bullish OB."
                         ELSE "SL based on Bearish OB."]
        ELSE IF ~IsNone(last_swing_price)
        THEN [level |-> last_swing_price.v * buffer,
              reason |-> IF side = "BUY" THEN "SL based on Last Swing Low."
                         ELSE "SL based on Last Swing High."]
        ELSE IF ~IsNone(atr_value) /\ atr_value.v > 0
        THEN [level |-> IF side = "BUY" THEN entry_price - atr_value.v * 1500
                        ELSE entry_price + atr_value.v * 1500,
              reason |-> "SL based on ATR."]
        ELSE [level |-> current_price.v * (IF side = "BUY" THEN 980 ELSE 1020),
              reason |-> "SL based on Percentage Fallback."]

\* generate_trading_signal of the detailed builder, given what the calls of
\* lines 40-41 came to: an exception of either call leaves the builder,
\* otherwise lines 43-216 build the signal from the two confluences.  The
\* reason is kept as the parts that the code joins into one string.
detailed_generate_trading_signal(buy_confluence, sell_confluence, classic_indicators, smc_signals, df, current_price) ==
    LET side == IF buy_confluence.type # "no_signal" THEN "BUY"
                ELSE IF sell_confluence.type # "no_signal" THEN "SELL"
                ELSE "NO_SIGNAL"
        confluence == IF side = "BUY" THEN buy_confluence ELSE sell_confluence
        entry == EntryPrice(side, smc_signals, current_price)
        entry_price == entry.level
        stop == StopLoss(side, classic_indicators, smc_signals, df, current_price,
                         entry_price)
        risk_per_unit == IF entry_price >= stop.level THEN entry_price - stop.level
                         ELSE stop.level - entry_price
        TakeProfit(multiple) ==
            IF risk_per_unit = 0 THEN NoneV
            ELSE [t |-> "float",
                  v |-> IF side = "BUY" THEN entry_price + risk_per_unit * multiple
                        ELSE entry_price - risk_per_unit * multiple]
    IN  IF buy_confluence.exc # "none"
        THEN [exc |-> buy_confluence.exc, signal |-> "raised"]
        ELSE IF sell_confluence.exc # "none"
        THEN [exc |-> sell_confluence.exc, signal |-> "raised"]
        ELSE IF side = "NO_SIGNAL"
        THEN [exc |-> "none", signal |-> "NO_SIGNAL", strength |-> "none",
              entry_price |-> IF IsNone(current_price) THEN NoneV
                              ELSE [t |-> "float", v |-> current_price.v * 1000],
              stop_loss |-> NoneV, take_profit_1 |-> NoneV, take_profit_2 |-> NoneV,
              take_profit_3 |-> NoneV, risk_reward_ratio_base |-> NoneV,
              reason |-> <<"Konfluensi belum cukup untuk sinyal valid.">>]
        ELSE [exc |-> "none", signal |-> side, strength |-> confluence.type,
              entry_price |-> [t |-> "float", v |-> entry_price],
              stop_loss |-> [t |-> "float", v |-> stop.level],
              take_profit_1 |-> TakeProfit(1), take_profit_2 |-> TakeProfit(2),
              take_profit_3 |-> TakeProfit(3),
              risk_reward_ratio_base |-> IF risk_per_unit = 0 THEN NoneV ELSE Str("1:1.0"),
              reason |-> <<IF side = "BUY" THEN "Konfluensi Bullish: "
                           ELSE "Konfluensi Bearish: ">>
                         \o confluence.reason \o entry.reason \o <<stop.reason>>
                         \o (IF risk_per_unit = 0
                             THEN <<"Risk per unit is zero, cannot calculate proper TP/SL.">>
                             ELSE <<>>)]

-----------------------------------------------------------------------------
(* The signal builders as a state machine: each builder is called once on  *)
(* the candles, the prices and the analyses of one run.                    *)

\* the longest series of candles handed to the builders
MaxPlanBars == 6

\* (open, high, low, close) of a candle, in tenths: around the current
\* prices, far above them, far below them, and one percent above 198.0
PlanCandles ==
    {<<1910, 1950, 1900, 1930>>, <<1940, 1945, 1940, 1942>>,
     <<12000, 12500, 12000, 12200>>, <<1000, 1100, 1000, 1050>>,
     <<2000, 2010, 2000, 2005>>}

\* a series whose first and last candle are one candle and whose other
\* candles are another
PlanSeries ==
    {[i \in 1..n |-> Bar(IF i = 1 \/ i = n THEN edge ELSE inner, i)] :
        n \in 0..MaxPlanBars, edge \in PlanCandles, inner \in PlanCandles}

\* current_price and current_open_price
PlanPrices ==
    {<<Num(1930), Num(1910)>>, <<Num(1980), Num(1990)>>, <<Num(1990), Num(1985)>>,
     <<Num(1930), NoneV>>, <<NoneV, NoneV>>}

\* what evaluate_market_confluence can have returned for the prices:
\* NO_DATA exactly when one of them is missing
PlanConfluences(px) ==
    IF IsNone(px[1]) \/ IsNone(px[2])
    THEN {[exc |-> "none", overall_sentiment |-> "NO_DATA",
           signals |-> <<"Error: Missing current price data">>]}
    ELSE {[exc |-> "none", overall_sentiment |-> sentiment,
           signals |-> <<"EMA: Bullish Trend">>] :
            sentiment \in {"BULLISH", "BEARISH", "CONFLICTING", "NEUTRAL"}}

\* classic_indicators with and without an ATR
PlanClassic ==
    {Classic("strong_bullish", "bullish", 55, "bullish", "cross_above_middle")
        @@ [ATR |-> Num(20)],
     Classic("strong_bearish", "bearish", 45, "bearish", "cross_below_middle")
        @@ [ATR |-> Num(0)],
     Classic("neutral", "neutral", 50, "neutral", "normal")}

\* smc_signals with and without order blocks and swing points (timestamps);
\* the last one has its gap around 199.0, half a percent below a low of 200.0
PlanSmc ==
    {EmptyDict,
     Smc("bullish_choch", Fvg("bullish_fvg", <<1900, 1950>>), Ob(1880, 1980), NoneV,
         <<>>, <<>>),
     Smc("bearish_choch", Fvg("bearish_fvg", <<1910, 1960>>), NoneV, Ob(1940, 1980),
         <<>>, <<>>),
     Smc("bullish_choch", Fvg("bullish_fvg", <<1900, 1950>>), NoneV, NoneV, <<>>, <<>>)
        @@ [swing_points |-> [t |-> "dict", swing_lows |-> <<1>>, swing_highs |-> <<2>>]],
     Smc("bullish_choch", Fvg("bullish_fvg", <<1980, 2000>>), NoneV, NoneV, <<>>, <<>>)
        @@ [swing_points |-> [t |-> "dict", swing_lows |-> <<1>>, swing_highs |-> <<>>]]}

InitSignal ==
    /\ \E ci \in PlanClassic, smc \in PlanSmc, px \in PlanPrices :
        /\ market_data = MarketData(ci, smc, px, EmptyDict)
        /\ confluence_result \in PlanConfluences(px)
    /\ ohlcv_df \in PlanSeries
    /\ trading_plan = NotBuilt
    /\ detailed_signal = NotBuilt
    /\ zone_check = NoZoneCheck
    /\ NoAnalyzerCall
    /\ pc = "signal"
    /\ buy_strength_result = NotCalled
    /\ sell_strength_result = NotCalled
    /\ min_bars = 0
    /\ swing_result = NoSwings
    /\ fvg_result = NoFvg
    /\ bos_choch_result = NoBosChoch
    /\ order_block_result = NoOrderBlock

\* analyze_coin hands the candles, the last close and the confluence to
\* generate_trading_signal of signals/signal_builder.py
GenerateTradingSignal ==
    /\ pc = "signal"
    /\ trading_plan = NotBuilt
    /\ trading_plan' = generate_trading_signal(ohlcv_df, market_data.current_price,
                                               confluence_result)
    /\ UNCHANGED <<market_data, pc, buy_strength_result, sell_strength_result,
                   confluence_result, ohlcv_df, min_bars, swing_result, fvg_result,
                   bos_choch_result, order_block_result, detailed_signal,
                   zone_check,
                   price_df, ta_output, calls>>

\* the detailed builder is called on the same run: lines 40-41 call the two
\* evaluators with four arguments (the second call is not reached when the
\* first one raises), and the results are its buy_confluence and
\* sell_confluence
GenerateDetailedSignal ==
    /\ pc = "signal"
    /\ detailed_signal = NotBuilt
    /\ buy_strength_result' =
            BuyConfluenceCall(<<market_data.classic_indicators, market_data.smc_signals,
                                market_data.current_price, market_data.current_open_price>>)
    /\ sell_strength_result' =
            IF buy_strength_result'.exc # "none" THEN NotCalled
            ELSE SellConfluenceCall(<<market_data.classic_indicators,
                                      market_data.smc_signals, market_data.current_price,
                                      market_data.current_open_price>>)
    /\ detailed_signal' =
            detailed_generate_trading_signal(buy_strength_result', sell_strength_result',
                                             market_data.classic_indicators,
                                             market_data.smc_signals, ohlcv_df,
                                             market_data.current_price)
    /\ UNCHANGED <<market_data, pc, confluence_result, ohlcv_df, min_bars, swing_result,
                   fvg_result, bos_choch_result, order_block_result, trading_plan,
                   zone_check,
                   price_df, ta_output, calls>>

NextSignal == GenerateTradingSignal \/ GenerateDetailedSignal

SpecSignal == InitSignal /\ [][NextSignal]_vars

-----------------------------------------------------------------------------
(* The zone helpers as a state machine: a price, the open of its candle    *)
(* and a zone are held against each other once.                            *)

\* the prices and zone bounds: a level, the levels around it and far ones
ZoneLevels == {0, 995, 1000, 1001, 1006, 2000}

\* the longest list handed over as a zone
MaxZoneLen == 3

\* a zone is a list of bounds, of two bounds when it is well-formed
Zones == UNION {[1..n -> ZoneLevels] : n \in 0..MaxZoneLen}

\* tolerance is tolerance_percent in thousandths: 0 or the default of 0.001
InitZone ==
    /\ \E price \in ZoneLevels, open \in ZoneLevels, zone \in Zones, tolerance \in {0, 1} :
            zone_check = [checked |-> FALSE, current_price |-> price, open_price |-> open,
                          zone |-> zone, tolerance |-> tolerance]
    /\ NoAnalyzerCall
    /\ trading_plan = NotBuilt
    /\ detailed_signal = NotBuilt
    /\ market_data = EmptyDict
    /\ pc = "zone"
    /\ buy_strength_result = NotCalled
    /\ sell_strength_result = NotCalled
    /\ confluence_result = [exc |-> "none", overall_sentiment |-> "pending", signals |-> <<>>]
    /\ ohlcv_df = NoSeries
    /\ min_bars = 0
    /\ swing_result = NoSwings
    /\ fvg_result = NoFvg
    /\ bos_choch_result = NoBosChoch
    /\ order_block_result = NoOrderBlock

\* the three helpers are called on the price, the open and the zone
CheckZone ==
    /\ pc = "zone"
    /\ ~zone_check.checked
    /\ zone_check' =
            [zone_check EXCEPT !.checked = TRUE]
            @@ [in_zone |-> _is_price_in_zone(zone_check.current_price, zone_check.zone),
                near_zone |-> _is_price_near_zone(zone_check.current_price, zone_check.zone,
                                                  zone_check.tolerance),
                entering_zone |-> _is_price_entering_zone(zone_check.open_price,
                                                          zone_check.current_price,
                                                          zone_check.zone)]
    /\ UNCHANGED <<market_data, pc, buy_strength_result, sell_strength_result,
                   confluence_result, ohlcv_df, min_bars, swing_result, fvg_result,
                   bos_choch_result, order_block_result, trading_plan, detailed_signal,
                   price_df, ta_output, calls>>

NextZone == CheckZone

SpecZone == InitZone /\ [][NextZone]_vars

-----------------------------------------------------------------------------
(* calculate_indicators and analyze_smc_structure on a DataFrame object.   *)
(* A DataFrame is [columns, bars]: columns maps each column name to what   *)
(* the column holds ("float64", "strings" for numbers delivered as text,   *)
(* "text" for values that are no numbers, "NaN" for floats with NaN), bars *)
(* are its rows as numbers.  The indicator values themselves come from the *)
(* ta library and are an input, ta_output.                                 *)

REQUIRED_COLS == <<"open", "high", "low", "close", "volume">>

\* pd.api.types.is_numeric_dtype(df[col])
is_numeric_dtype(column) == column \in {"float64", "NaN"}

\* pd.to_numeric(df[col], errors='coerce')
to_numeric(column) == IF column \in {"text", "NaN"} THEN "NaN" ELSE "float64"

\* df[name] = column
SetColumn(df, name, column) ==
    [df EXCEPT !.columns = [c \in DOMAIN df.columns \cup {name} |->
                                IF c = name THEN column ELSE df.columns[c]]]

\* sorted(prices)
RECURSIVE SortedPrices(_)
SortedPrices(prices) ==
    IF prices = <<>> THEN <<>>
    ELSE LET i == CHOOSE i \in DOMAIN prices : prices[i] = SeqMin(prices)
         IN  <<prices[i]>>
             \o SortedPrices([k \in 1..(Len(prices) - 1) |->
                                  IF k < i THEN prices[k] ELSE prices[k + 1]])

\* tolerance_percent of the call in analyze_smc_structure, in 1e-4
EQ_TOLERANCE == 5

\* group_equal_prices from the i-th price on: the current group is kept as
\* its sum and its length, a mean is the quotient of the two
RECURSIVE group_equal_prices(_, _, _, _, _, _)
group_equal_prices(prices, i, group_sum, group_len, groups, tolerance_percent) ==
    LET closed == IF group_len >= 2
                  THEN Append(groups, [t |-> "quotient", num |-> group_sum,
                                       den |-> group_len])
                  ELSE groups
    IN  IF i > Len(prices) THEN closed
        ELSE LET distance == IF prices[i] * group_len >= group_sum
                             THEN prices[i] * group_len - group_sum
                             ELSE group_sum - prices[i] * group_len
                 \* abs(prices[i] - group_mean) / group_mean <= tolerance_percent
                 within == group_sum > 0
                           /\ distance * 10000 <= tolerance_percent * group_sum
             IN  IF within
                 THEN group_equal_prices(prices, i + 1, group_sum + prices[i],
                                         group_len + 1, groups, tolerance_percent)
                 ELSE group_equal_prices(prices, i + 1, prices[i], 1, closed,
                                         tolerance_percent)

detect_eq_zone(df, swing_points, tolerance_percent) ==
    LET Grouped(prices) ==
            IF prices = <<>> THEN <<>>
            ELSE group_equal_prices(SortedPrices(prices), 2, SortedPrices(prices)[1], 1,
                                    <<>>, tolerance_percent)
        high_prices_from_swings ==
            [k \in DOMAIN swing_points.swing_highs |->
                df[Loc(df, swing_points.swing_highs[k])].high]
        low_prices_from_swings ==
            [k \in DOMAIN swing_points.swing_lows |->
                df[Loc(df, swing_points.swing_lows[k])].low]
    IN  [t |-> "dict", eq_high |-> Grouped(high_prices_from_swings),
         eq_low |-> Grouped(low_prices_from_swings)]

\* min_bars_between_swings of the call in analyze_smc_structure
SWING_MIN_BARS == 5

\* a variant of the loop that asks only for the columns the detectors read
SmcColumnsWithoutVolume(df, k) ==
    IF \E c \in {"open", "high", "low", "close"} : c \notin DOMAIN df.columns
    THEN [df |-> df, found |-> FALSE]
    ELSE [df |-> df, found |-> TRUE]

\* the loop over the required columns from the k-th on: it stops at a
\* column that is absent and converts the ones before it in place
RECURSIVE SmcColumns(_, _)
SmcColumns(df, k) ==
    IF k > Len(REQUIRED_COLS) THEN [df |-> df, found |-> TRUE]
    ELSE IF REQUIRED_COLS[k] \notin DOMAIN df.columns THEN [df |-> df, found |-> FALSE]
    ELSE SmcColumns(SetColumn(df, REQUIRED_COLS[k], to_numeric(df.columns[REQUIRED_COLS[k]])),
                    k + 1)

\* analyze_smc_structure(df): what it returns and the DataFrame it leaves
analyze_smc_structure(df) ==
    IF df.bars = <<>> THEN [df |-> df, exc |-> "none", result |-> EmptyDict]
    ELSE LET checked == SmcColumns(df, 1)
             swing_points == find_significant_swing_points(df.bars, SWING_MIN_BARS)
             bos_choch == detect_bos_choch(df.bars, swing_points, MIN_BREAK_THRESHOLD)
             fvg == detect_fvg(df.bars)
         IN  IF ~checked.found
             THEN [df |-> checked.df, exc |-> "none", result |-> EmptyDict]
             ELSE [df |-> checked.df, exc |-> "none",
                   result |-> [t |-> "dict",
                               swing_points |-> swing_points,
                               bos_choch |-> bos_choch,
                               fvg |-> fvg,
                               eq_zone |-> detect_eq_zone(df.bars, swing_points, EQ_TOLERANCE),
                               order_block |-> detect_order_block(df.bars, bos_choch, fvg)]]

-----------------------------------------------------------------------------

\* the validation loop of calculate_indicators from the k-th required
\* column on: it stops at a column that is absent or that holds a value
\* that is no number, and converts a non-numeric column in place
RECURSIVE IndicatorColumns(_, _)
IndicatorColumns(df, k) ==
    IF k > Len(REQUIRED_COLS) THEN [df |-> df, valid |-> TRUE]
    ELSE LET col == REQUIRED_COLS[k]
             converted == SetColumn(df, col, to_numeric(df.columns[col]))
         IN  IF col \notin DOMAIN df.columns THEN [df |-> df, valid |-> FALSE]
             ELSE IF is_numeric_dtype(df.columns[col]) THEN IndicatorColumns(df, k + 1)
             ELSE IF converted.columns[col] = "NaN" THEN [df |-> converted, valid |-> FALSE]
             ELSE IndicatorColumns(converted, k + 1)

\* the columns calculate_indicators assigns, in the order of the assignments
INDICATOR_COLS ==
    <<"EMA_20", "EMA_50", "EMA_200", "MACD", "MACD_Signal", "MACD_Hist",
      "BB_middle", "BB_upper", "BB_lower", "StochRSI_K", "StochRSI_D">>

RECURSIVE WithColumns(_, _, _)
WithColumns(df, names, k) ==
    IF k > Len(names) THEN df
    ELSE WithColumns(SetColumn(df, names[k], "float64"), names, k + 1)

\* calculate_indicators(df) with ta the values the ta library returns for
\* df['close']: ema = (EMA_20, EMA_50) of the last and of the previous row,
\* macd = (MACD, MACD_Signal) of the last and of the previous row,
\* bb = (lower, middle, upper) of the last row, stoch = (K, D) of the last
\* and of the previous row.  The result is the snapshot it returns and the
\* DataFrame it leaves.
calculate_indicators(df, ta) ==
    LET checked == IndicatorColumns(df, 1)
        length == Len(df.bars)
        ema_signal ==
            IF length >= 50
            THEN IF ta.ema[1] > ta.ema[2] /\ ta.ema[3] <= ta.ema[4] THEN "bullish_crossover"
                 ELSE IF ta.ema[1] < ta.ema[2] /\ ta.ema[3] >= ta.ema[4]
                 THEN "bearish_crossover"
                 ELSE IF ta.ema[1] > ta.ema[2] THEN "bullish"
                 ELSE "bearish"
            ELSE "N/A_not_enough_data"
        \* the RSI block has no test on the length
        rsi_signal ==
            IF ta.rsi > 70 THEN "overbought"
            ELSE IF ta.rsi < 30 THEN "oversold"
            ELSE "normal"
        macd ==
            IF length >= 26
            THEN IF ta.macd[1] > ta.macd[2] /\ ta.macd[3] <= ta.macd[4]
                 THEN <<"bullish_crossover", "bullish">>
                 ELSE IF ta.macd[1] < ta.macd[2] /\ ta.macd[3] >= ta.macd[4]
                 THEN <<"bearish_crossover", "bearish">>
                 ELSE IF ta.macd[1] > ta.macd[2] THEN <<"bullish", "bullish">>
                 ELSE IF ta.macd[1] < ta.macd[2] THEN <<"bearish", "bearish">>
                 ELSE <<"neutral", "neutral">>
            ELSE <<"N/A_not_enough_data", "N/A_not_enough_data">>
        last_close == df.bars[length].close
        prev_close == df.bars[length - 1].close
        BB_lower == ta.bb[1]
        BB_middle == ta.bb[2]
        BB_upper == ta.bb[3]
        bb_signal ==
            IF length >= 20
            THEN IF last_close > BB_middle /\ prev_close <= BB_middle THEN "cross_above_middle"
                 ELSE IF last_close < BB_middle /\ prev_close >= BB_middle
                 THEN "cross_below_middle"
                 ELSE IF last_close < BB_lower THEN "outside_lower_band"
                 ELSE IF last_close > BB_upper THEN "outside_upper_band"
                 ELSE IF last_close > BB_lower /\ prev_close < BB_lower THEN "bounce_from_lower"
                 ELSE IF last_close < BB_upper /\ prev_close > BB_upper THEN "bounce_from_upper"
                 ELSE "normal"
            ELSE "N/A_not_enough_data"
        StochRSI_K == ta.stoch[1]
        StochRSI_D == ta.stoch[2]
        stoch_signal ==
            IF length >= 14
            THEN IF StochRSI_K > StochRSI_D /\ ta.stoch[3] <= ta.stoch[4]
                 THEN IF StochRSI_K < 20 THEN "oversold_bullish_cross" ELSE "bullish_crossover"
                 ELSE IF StochRSI_K < StochRSI_D /\ ta.stoch[3] >= ta.stoch[4]
                 THEN IF StochRSI_K > 80 THEN "overbought_bearish_cross"
                      ELSE "bearish_crossover"
                 ELSE IF StochRSI_K > 80 THEN "overbought"
                 ELSE IF StochRSI_K < 20 THEN "oversold"
                 ELSE "normal"
            ELSE "N/A_not_enough_data"
    IN  IF df.bars = <<>> THEN [df |-> df, exc |-> "none", result |-> EmptyDict]
        ELSE IF ~checked.valid
        THEN [df |-> checked.df, exc |-> "none", result |-> EmptyDict]
        ELSE [df |-> WithColumns(checked.df, INDICATOR_COLS, 1), exc |-> "none",
              result |->
                [t |-> "dict",
                 ema_signal |-> ema_signal,
                 EMA_20 |-> Num(ta.ema[1]), EMA_50 |-> Num(ta.ema[2]),
                 EMA_200 |-> [t |-> "nan"],
                 RSI |-> Num(ta.rsi), rsi_signal |-> rsi_signal,
                 MACD |-> Num(ta.macd[1]), MACD_Signal |-> Num(ta.macd[2]),
                 MACD_Hist |-> Num(ta.macd[1] - ta.macd[2]),
                 macd_signal |-> macd[1], macd_trend |-> macd[2],
                 BB_middle |-> Num(BB_middle), BB_upper |-> Num(BB_upper),
                 BB_lower |-> Num(BB_lower), bb_signal |-> bb_signal,
                 StochRSI_K |-> Num(StochRSI_K), StochRSI_D |-> Num(StochRSI_D),
                 stoch_signal |-> stoch_signal]]

-----------------------------------------------------------------------------

(* The analyzers as a state machine: a caller holds one DataFrame object   *)
(* and calls calculate_indicators and analyze_smc_structure on it, then    *)
(* hands the snapshot to evaluate_market_confluence as analyze_coin does.  *)

\* the calls made on one DataFrame object
MaxCalls == 2

\* the rows of a DataFrame of n hourly candles that ends on a rising
\* (phase 0) or on a falling (phase 6) leg of a zigzag of period 12
Series(n, phase) ==
    LET Wave(k) == IF (k % 12) >= 6 THEN (k % 12) - 6 ELSE 6 - (k % 12)
        Base(k) == 10 + 2 * Wave(k)
        Rising(k) == Wave(k) > Wave(k + 1)
    IN  [i \in 1..n |->
            LET k == n - i + 3 + phase
            IN  [open |-> IF Rising(k) THEN Base(k) ELSE Base(k) + 1,
                 high |-> Base(k) + 1, low |-> Base(k),
                 close |-> IF Rising(k) THEN Base(k) + 1 ELSE Base(k),
                 timestamp |-> i]]

\* series lengths around the lookbacks 14, 20, 26 and 50
RowCounts == {0, 1, 13, 14, 19, 20, 25, 26, 49, 50}

\* the required columns, all holding the same kind of values
AllColumns(column) == [c \in {REQUIRED_COLS[k] : k \in DOMAIN REQUIRED_COLS} |-> column]

Without(columns, name) == [c \in DOMAIN columns \ {name} |-> columns[c]]

ColumnInputs ==
    {AllColumns("float64"), AllColumns("strings"),
     [AllColumns("float64") EXCEPT !["volume"] = "text"],
     Without(AllColumns("float64"), "volume"), Without(AllColumns("strings"), "volume"),
     Without(AllColumns("float64"), "close")}

\* values of the ta library that give the bullish and the bearish labels
TaBullish ==
    [ema |-> <<2, 1, 2, 1>>, rsi |-> 55, macd |-> <<1, 0, 1, 0>>, bb |-> <<5, 16, 30>>,
     stoch |-> <<10, 5, 1, 2>>]

TaBearish ==
    [ema |-> <<1, 2, 1, 2>>, rsi |-> 55, macd |-> <<0, 1, 0, 1>>, bb |-> <<5, 17, 30>>,
     stoch |-> <<90, 95, 2, 1>>]

\* the two with one indicator varied so that every label of it occurs
TaOutputs ==
    UNION {
        {[base EXCEPT !.ema = x] :
            x \in {<<2, 1, 1, 2>>, <<1, 2, 2, 1>>, <<2, 1, 2, 1>>, <<1, 2, 1, 2>>}}
        \cup {[base EXCEPT !.rsi = x] : x \in {20, 55, 80}}
        \cup {[base EXCEPT !.macd = x] :
                x \in {<<1, 0, 0, 1>>, <<0, 1, 1, 0>>, <<1, 0, 1, 0>>, <<0, 1, 0, 1>>,
                       <<0, 0, 0, 0>>}}
        \cup {[base EXCEPT !.bb = x] :
                x \in {<<5, 10, 30>>, <<5, 16, 30>>, <<5, 17, 30>>, <<20, 25, 30>>,
                       <<0, 5, 10>>, <<16, 25, 30>>, <<0, 5, 17>>}}
        \cup {[base EXCEPT !.stoch = x] :
                x \in {<<10, 5, 1, 2>>, <<50, 40, 1, 2>>, <<90, 95, 2, 1>>, <<40, 50, 2, 1>>,
                       <<90, 85, 2, 1>>, <<10, 15, 1, 2>>, <<50, 50, 1, 1>>}}
        : base \in {TaBullish, TaBearish}}

InitPipeline ==
    /\ \/ \E ta \in TaOutputs, phase \in {0, 6} :
            /\ price_df = [columns |-> AllColumns("float64"), bars |-> Series(50, phase)]
            /\ ta_output = ta
       \/ \E n \in RowCounts, columns \in ColumnInputs, ta \in {TaBullish, TaBearish} :
            /\ price_df = [columns |-> columns, bars |-> Series(n, 0)]
            /\ ta_output = ta
    /\ calls = <<>>
    /\ pc = "pipeline"
    /\ market_data = EmptyDict
    /\ buy_strength_result = NotCalled
    /\ sell_strength_result = NotCalled
    /\ confluence_result = [exc |-> "none", overall_sentiment |-> "pending", signals |-> <<>>]
    /\ ohlcv_df = NoSeries
    /\ min_bars = 0
    /\ swing_result = NoSwings
    /\ fvg_result = NoFvg
    /\ bos_choch_result = NoBosChoch
    /\ order_block_result = NoOrderBlock
    /\ trading_plan = NotBuilt
    /\ detailed_signal = NotBuilt
    /\ zone_check = NoZoneCheck

\* calculate_indicators(price_df): the call is recorded with the DataFrame
\* it was given, and the caller's object is left as the call left it
CalculateIndicators ==
    /\ pc = "pipeline"
    /\ Len(calls) < MaxCalls
    /\ market_data = EmptyDict
    /\ calls' = Append(calls, [fn |-> "calculate_indicators", given |-> price_df]
                              @@ calculate_indicators(price_df, ta_output))
    /\ price_df' = calls'[Len(calls')].df
    /\ UNCHANGED <<market_data, pc, buy_strength_result, sell_strength_result,
                   confluence_result, ohlcv_df, min_bars, swing_result, fvg_result,
                   bos_choch_result, order_block_result, trading_plan, detailed_signal,
                   zone_check, ta_output>>

\* analyze_smc_structure(price_df)
AnalyzeStructure ==
    /\ pc = "pipeline"
    /\ Len(calls) < MaxCalls
    /\ market_data = EmptyDict
    /\ calls' = Append(calls, [fn |-> "analyze_smc_structure", given |-> price_df]
                              @@ analyze_smc_structure(price_df))
    /\ price_df' = calls'[Len(calls')].df
    /\ UNCHANGED <<market_data, pc, buy_strength_result, sell_strength_result,
                   confluence_result, ohlcv_df, min_bars, swing_result, fvg_result,
                   bos_choch_result, order_block_result, trading_plan, detailed_signal,
                   zone_check, ta_output>>

\* analyze_coin: a series of 20 rows or more, a snapshot that is not empty,
\* and evaluate_market_confluence on the collected data
EvaluateSnapshot ==
    /\ pc = "pipeline"
    /\ market_data = EmptyDict
    /\ calls # <<>>
    /\ calls[Len(calls)].fn = "calculate_indicators"
    /\ calls[Len(calls)].result # EmptyDict
    /\ Len(price_df.bars) >= 20
    /\ \E smc \in {Smc("bullish_choch", Fvg("bullish_fvg", <<1900, 1950>>), Ob(1880, 1920),
                       NoneV, <<1800, 1805>>, <<>>),
                   Smc("bearish_choch", Fvg("bearish_fvg", <<1910, 1960>>), NoneV,
                       Ob(1940, 1980), <<>>, <<2055, 2060>>)},
          px \in {<<Num(1930), Num(1910)>>, <<Num(1930), Num(1950)>>},
          mda \in {AuxBuyStrong(FALSE), AuxSellStrong(FALSE)} :
            market_data' = MarketData(calls[Len(calls)].result, smc, px, mda)
    /\ buy_strength_result' = buy_strength(market_data')
    /\ sell_strength_result' = sell_strength(market_data', buy_strength_result')
    /\ confluence_result' = Resolve(market_data', buy_strength_result', sell_strength_result')
    /\ UNCHANGED <<pc, ohlcv_df, min_bars, swing_result, fvg_result, bos_choch_result,
                   order_block_result, trading_plan, detailed_signal, zone_check,
                   price_df, ta_output, calls>>

NextPipeline == CalculateIndicators \/ AnalyzeStructure \/ EvaluateSnapshot

SpecPipeline == InitPipeline /\ [][NextPipeline]_vars

-----------------------------------------------------------------------------

(* Properties of the confluence engine.                                    *)

\* the confluences dicts the two evaluators build from a market_data
BuyConfluencesOf(md) ==
    BuyConfluences(md.classic_indicators, md.smc_signals, md.current_price,
                   md.current_open_price, md.market_data_additional)

SellConfluencesOf(md) ==
    SellConfluences(md.classic_indicators, md.smc_signals, md.current_price,
                    md.current_open_price, md.market_data_additional)

\* an evaluator was called and handed back a {type, reason} dict
HasReturned(result) == result.exc = "none" /\ result.type # "not_called"

\* check_buy_confluence went past its classic_indicators test and returned
BuyTiered == pc = "done" /\ HasReturned(buy_strength_result)
             /\ ~IsNone(market_data.classic_indicators)

SellTiered == pc = "done" /\ HasReturned(sell_strength_result)

BuyTypes == {"strong_buy", "moderate_buy", "potential_buy", "no_signal"}
SellTypes == {"strong_sell", "moderate_sell", "potential_sell", "no_signal"}

\* strong > moderate > potential > no_signal
Rank(type) ==
    CASE type \in {"strong_buy", "strong_sell"} -> 3
      [] type \in {"moderate_buy", "moderate_sell"} -> 2
      [] type \in {"potential_buy", "potential_sell"} -> 1
      [] OTHER -> 0

PrioritySentiment(buy_type, sell_type) ==
    IF Rank(buy_type) >= 2 /\ Rank(buy_type) > Rank(sell_type) THEN "BULLISH"
    ELSE IF Rank(sell_type) >= 2 /\ Rank(sell_type) > Rank(buy_type) THEN "BEARISH"
    ELSE "other"

\* C2: overall_sentiment is BULLISH exactly when the buy tier is strong or
\* moderate and strictly outranks the sell tier, BEARISH exactly in the mirror
\* case, and a potential signal on one side with no_signal on the other gives
\* NEUTRAL with that side's reasons; on every pair of tiers, and on the pair
\* the evaluators returned.
C2_StrictPriority ==
    /\ \A bt \in BuyTypes, st \in SellTypes :
        LET buy == Returned(bt, <<"buy reason">>)
            sell == Returned(st, <<"sell reason">>)
            final == Resolution(buy, sell)
        IN  /\ final.overall_sentiment = "BULLISH" <=>
                    PrioritySentiment(bt, st) = "BULLISH"
            /\ final.overall_sentiment = "BEARISH" <=>
                    PrioritySentiment(bt, st) = "BEARISH"
            /\ final.overall_sentiment = "BULLISH" => final.signals = buy.reason
            /\ final.overall_sentiment = "BEARISH" => final.signals = sell.reason
            /\ bt = "potential_buy" /\ st = "no_signal" =>
                    final = [overall_sentiment |-> "NEUTRAL", signals |-> buy.reason]
            /\ st = "potential_sell" /\ bt = "no_signal" =>
                    final = [overall_sentiment |-> "NEUTRAL", signals |-> sell.reason]
    /\ (pc = "done" /\ HasReturned(buy_strength_result)
          /\ HasReturned(sell_strength_result)) =>
        LET bt == buy_strength_result.type
            st == sell_strength_result.type
        IN  /\ confluence_result.overall_sentiment = "BULLISH" <=>
                    PrioritySentiment(bt, st) = "BULLISH"
            /\ confluence_result.overall_sentiment = "BEARISH" <=>
                    PrioritySentiment(bt, st) = "BEARISH"
            /\ bt = "potential_buy" /\ st = "no_signal" =>
                    /\ confluence_result.overall_sentiment = "NEUTRAL"
                    /\ confluence_result.signals = buy_strength_result.reason
            /\ st = "potential_sell" /\ bt = "no_signal" =>
                    /\ confluence_result.overall_sentiment = "NEUTRAL"
                    /\ confluence_result.signals = sell_strength_result.reason

\* a moderate buy outranked a potential sell and the result is BULLISH
C2_Witness ==
    /\ pc = "done"
    /\ buy_strength_result.type = "moderate_buy"
    /\ sell_strength_result.type = "potential_sell"
    /\ confluence_result.overall_sentiment = "BULLISH"
    /\ confluence_result.signals = buy_strength_result.reason

\* the statement C3 as written: an equal tier on both sides, strong, moderate
\* or potential, always resolves to CONFLICTING
C3_EqualTierConflicting ==
    (pc = "done" /\ HasReturned(buy_strength_result) /\ HasReturned(sell_strength_result)
       /\ Rank(buy_strength_result.type) >= 1
       /\ Rank(buy_strength_result.type) = Rank(sell_strength_result.type))
    => confluence_result.overall_sentiment = "CONFLICTING"

\* C3 (amended): of the equal-tier pairs only strong_buy with strong_sell
\* resolves to CONFLICTING; moderate_buy with moderate_sell resolves to NEUTRAL
\* with the reason "Conflicting moderate buy and moderate sell signals.", and
\* potential_buy with potential_sell resolves to NEUTRAL with the reason "No
\* clear dominant confluence signal detected."; no side is picked in any of
\* the three.
C3_EqualTierResolution ==
    /\ \A bt \in BuyTypes, st \in SellTypes :
        LET final == Resolution(Returned(bt, <<"buy reason">>),
                                Returned(st, <<"sell reason">>))
        IN  /\ final.overall_sentiment = "CONFLICTING" <=>
                    bt = "strong_buy" /\ st = "strong_sell"
            /\ bt = "moderate_buy" /\ st = "moderate_sell" =>
                    final = [overall_sentiment |-> "NEUTRAL",
                             signals |-> <<"Conflicting moderate buy and moderate sell signals.">>]
            /\ bt = "potential_buy" /\ st = "potential_sell" =>
                    final = [overall_sentiment |-> "NEUTRAL",
                             signals |-> <<"No clear dominant confluence signal detected.">>]
    /\ (pc = "done" /\ HasReturned(buy_strength_result)
          /\ HasReturned(sell_strength_result)) =>
        /\ confluence_result.overall_sentiment = "CONFLICTING" <=>
                /\ buy_strength_result.type = "strong_buy"
                /\ sell_strength_result.type = "strong_sell"
        /\ (buy_strength_result.type = "potential_buy"
              /\ sell_strength_result.type = "potential_sell") =>
                /\ confluence_result.overall_sentiment = "NEUTRAL"
                /\ confluence_result.signals =
                        <<"No clear dominant confluence signal detected.">>

\* both evaluators returned the potential tier and the result is NEUTRAL
C3_Witness ==
    /\ pc = "done"
    /\ buy_strength_result.type = "potential_buy"
    /\ sell_strength_result.type = "potential_sell"
    /\ confluence_result.overall_sentiment = "NEUTRAL"

\* the statement C4: on the Skenario Konflik input, as written or with its
\* leaves parsed, check_buy_confluence returns strong_buy, check_sell_confluence
\* returns strong_sell and overall_sentiment is CONFLICTING
C4_ConflictReachable ==
    (pc = "done" /\ market_data \in {mock_data_conflicting(w) : w \in BOOLEAN})
    => /\ buy_strength_result.type = "strong_buy"
       /\ sell_strength_result.type = "strong_sell"
       /\ confluence_result.overall_sentiment = "CONFLICTING"

\* the mirror of a label, of a price and of an RSI value
MirrorLabel(label) ==
    CASE label = "bullish" -> "bearish"
      [] label = "bearish" -> "bullish"
      [] label = "strong_bullish" -> "strong_bearish"
      [] label = "strong_bearish" -> "strong_bullish"
      [] label = "cross_above_middle" -> "cross_below_middle"
      [] label = "cross_below_middle" -> "cross_above_middle"
      [] label = "bullish_choch" -> "bearish_choch"
      [] label = "bearish_choch" -> "bullish_choch"
      [] label = "bullish_fvg" -> "bearish_fvg"
      [] label = "bearish_fvg" -> "bullish_fvg"
      [] OTHER -> label

MirrorPrice(price) == 3860 - price

MirrorLevels(levels) == [i \in DOMAIN levels |-> MirrorPrice(levels[Len(levels) + 1 - i])]

MirrorOb(ob) == IF IsNone(ob) THEN NoneV ELSE Ob(MirrorPrice(ob.high), MirrorPrice(ob.low))

\* the bearish mirror of a market_data without auxiliary data, and vice versa
Mirror(md) ==
    LET ci == md.classic_indicators
        smc == md.smc_signals
    IN  MarketData(
            Classic(MirrorLabel(ci.ema_signal), MirrorLabel(ci.macd_trend), 100 - ci.rsi.v,
                    MirrorLabel(ci.stoch_signal), MirrorLabel(ci.bb_signal)),
            Smc(MirrorLabel(smc.bos_choch.type),
                Fvg(MirrorLabel(smc.fvg.type), MirrorLevels(smc.fvg.zone)),
                MirrorOb(smc.order_block.bearish_ob), MirrorOb(smc.order_block.bullish_ob),
                MirrorLevels(smc.eq_zone.eq_high), MirrorLevels(smc.eq_zone.eq_low)),
            <<Num(MirrorPrice(md.current_price.v)), Num(MirrorPrice(md.current_open_price.v))>>,
            md.market_data_additional)

\* a market_data with every indicator and structure signal present and no
\* auxiliary market data
Mirrorable(md) ==
    /\ IsDict(md.classic_indicators)
    /\ IsDict(md.smc_signals) /\ md.smc_signals # EmptyDict
    /\ ~IsNone(md.current_price) /\ ~IsNone(md.current_open_price)
    /\ md.market_data_additional = EmptyDict

\* the statement C5: on an input without auxiliary market data, the mirrored
\* input turns a BULLISH result into BEARISH and a BEARISH result into BULLISH
C5_MirrorSymmetry ==
    (pc = "done" /\ Mirrorable(market_data)) =>
        LET mirrored == evaluate_market_confluence(Mirror(market_data))
        IN  /\ confluence_result.overall_sentiment = "BULLISH" =>
                    mirrored.overall_sentiment = "BEARISH"
            /\ confluence_result.overall_sentiment = "BEARISH" =>
                    mirrored.overall_sentiment = "BULLISH"

\* prices are present, so both evaluators are reached
Priced == ~IsNone(market_data.current_price) /\ ~IsNone(market_data.current_open_price)

HasReason(result, text) == \E i \in DOMAIN result.reason : result.reason[i] = text

\* the statement C6: with classic_indicators, smc_signals or
\* market_data_additional None, neither evaluator raises, both return a
\* {type, reason} dict, and the reason names the missing data
C6_NoneNeverRaises ==
    (pc = "done" /\ Priced
       /\ \/ IsNone(market_data.classic_indicators)
          \/ IsNone(market_data.smc_signals)
          \/ IsNone(market_data.market_data_additional))
    => /\ HasReturned(buy_strength_result)
       /\ HasReturned(sell_strength_result)
       /\ confluence_result.exc = "none"
       /\ \A result \in {buy_strength_result, sell_strength_result} :
            /\ IsNone(market_data.classic_indicators) =>
                    HasReason(result, "Classic Indicators: Data missing.")
            /\ (~IsNone(market_data.classic_indicators)
                  /\ IsNone(market_data.smc_signals)) =>
                    HasReason(result, "SMC Signals: Data missing.")
            /\ (~IsNone(market_data.classic_indicators)
                  /\ IsNone(market_data.market_data_additional)) =>
                    HasReason(result, "Additional Market Data: Data missing.")

\* the statement C7: without auxiliary market data (an empty dict, or every
\* branch empty) every auxiliary flag of both evaluators is false, the
\* auxiliary count is zero and no tier is strong or moderate
C7_NoAuxiliaryNoFlags ==
    (pc = "done" /\ Priced
       /\ IsDict(market_data.classic_indicators) /\ IsDict(market_data.smc_signals)
       /\ market_data.market_data_additional \in {EmptyDict, AuxNeutral})
    => /\ BuyAdditional(BuyConfluencesOf(market_data)) = 0
       /\ SellAdditional(SellConfluencesOf(market_data)) = 0
       /\ Rank(buy_strength_result.type) < 2
       /\ Rank(sell_strength_result.type) < 2

-----------------------------------------------------------------------------
(* Properties of the structure analysis.                                   *)

Range(s) == {s[i] : i \in DOMAIN s}

\* the entries of the chronological merge of swing_highs and swing_lows
SwingEntries(swings) ==
    {[timestamp |-> swings.swing_highs[i], kind |-> "high"] : i \in DOMAIN swings.swing_highs}
    \cup {[timestamp |-> swings.swing_lows[i], kind |-> "low"] : i \in DOMAIN swings.swing_lows}

\* a and b are neighbours in the chronological merge
ConsecutiveSwings(swings, a, b) ==
    /\ a \in SwingEntries(swings) /\ b \in SwingEntries(swings)
    /\ a # b /\ a.timestamp <= b.timestamp
    /\ ~\E c \in SwingEntries(swings) \ {a, b} :
            a.timestamp <= c.timestamp /\ c.timestamp <= b.timestamp

\* the position of the bar with a given index label
BarOf(series, timestamp) == CHOOSE i \in DOMAIN series : series[i].timestamp = timestamp

EvenlySpaced(series) ==
    \A i \in 2..Len(series) :
        series[i].timestamp - series[i - 1].timestamp = series[2].timestamp - series[1].timestamp

\* C8: in the chronological merge of the swing_highs and swing_lows that
\* find_significant_swing_points returned, no two consecutive entries have the
\* same kind, and no swing is listed twice.
C8_SwingAlternation ==
    /\ Cardinality(SwingEntries(swing_result))
            = Len(swing_result.swing_highs) + Len(swing_result.swing_lows)
    /\ \A a, b \in SwingEntries(swing_result) :
            ConsecutiveSwings(swing_result, a, b) => a.kind # b.kind

\* the merge holds a high, a low and a high again, or a low, a high and a low
C8_Witness ==
    \E a, b, c \in SwingEntries(swing_result) :
        /\ ConsecutiveSwings(swing_result, a, b) /\ ConsecutiveSwings(swing_result, b, c)
        /\ a.kind = c.kind /\ a.kind # b.kind

\* C9: on an evenly spaced series, two consecutive entries of the chronological
\* merge of the returned swings are at least min_bars_between_swings bars apart.
C9_SwingSeparation ==
    EvenlySpaced(ohlcv_df) =>
        \A a, b \in SwingEntries(swing_result) :
            ConsecutiveSwings(swing_result, a, b) =>
                BarOf(ohlcv_df, b.timestamp) - BarOf(ohlcv_df, a.timestamp) >= min_bars

\* an evenly spaced series with two consecutive swings exactly
\* min_bars_between_swings = 2 bars apart
C9_Witness ==
    /\ EvenlySpaced(ohlcv_df) /\ min_bars = 2
    /\ \E a, b \in SwingEntries(swing_result) :
            /\ ConsecutiveSwings(swing_result, a, b)
            /\ BarOf(ohlcv_df, b.timestamp) - BarOf(ohlcv_df, a.timestamp) = min_bars

\* the gap of bars i..i+2 was formed and is absent from all_unmitigated_fvg of
\* the first k bars
MitigatedWithin(series, k, i) ==
    /\ i + 2 <= k /\ k <= Len(series)
    /\ GapAt(series, i).type # "no_fvg"
    /\ GapAt(series, i) \notin Range(detect_fvg(SubSeq(series, 1, k)).all_unmitigated_fvg)

\* C10: a gap of bars i..i+2 that is absent from all_unmitigated_fvg of a
\* series is absent from all_unmitigated_fvg of every series obtained by
\* appending further bars.
C10_MitigationMonotone ==
    \A k \in 3..Len(ohlcv_df) : \A i \in 1..(k - 2) :
        MitigatedWithin(ohlcv_df, k, i) =>
            GapAt(ohlcv_df, i) \notin Range(fvg_result.all_unmitigated_fvg)

\* a gap was mitigated, two more bars were appended, the gap is still absent
\* and a younger gap is unmitigated
C10_Witness ==
    /\ fvg_result.type # "no_fvg"
    /\ \E k \in 3..(Len(ohlcv_df) - 2) : \E i \in 1..(k - 2) :
        /\ MitigatedWithin(ohlcv_df, k, i)
        /\ GapAt(ohlcv_df, i) \notin Range(fvg_result.all_unmitigated_fvg)

\* the entries of all_unmitigated_fvg stamped with the middle bar of i..i+2
ListedGaps(fvg, series, i) ==
    {entry \in Range(fvg.all_unmitigated_fvg) :
        entry.timestamp = Num(series[i + 1].timestamp)}

\* no bar from position i+3 to the end has a range overlapping the zone
Untouched(series, i, zone_low, zone_high) ==
    \A j \in (i + 3)..Len(series) :
        ~(series[j].low <= zone_high /\ series[j].high >= zone_low)

\* C11: for every triplet of bars (i, i+1, i+2), detect_fvg lists a bullish
\* gap with zone [bar[i].high, bar[i+2].low] exactly when
\* bar[i].high < bar[i+2].low and no bar from i+3 to the end overlaps the zone,
\* a bearish gap with zone [bar[i+2].high, bar[i].low] exactly when
\* bar[i].low > bar[i+2].high and no bar from i+3 to the end overlaps the zone,
\* and nothing for the triplet otherwise.
C11_GapDetection ==
    \A i \in 1..(Len(ohlcv_df) - 2) :
        LET first == ohlcv_df[i]
            third == ohlcv_df[i + 2]
            stamp == Num(ohlcv_df[i + 1].timestamp)
        IN  ListedGaps(fvg_result, ohlcv_df, i) =
                IF first.high < third.low
                        /\ Untouched(ohlcv_df, i, first.high, third.low)
                THEN {[type |-> "bullish_fvg", zone |-> <<first.high, third.low>>,
                       timestamp |-> stamp]}
                ELSE IF first.low > third.high
                        /\ Untouched(ohlcv_df, i, third.high, first.low)
                THEN {[type |-> "bearish_fvg", zone |-> <<third.high, first.low>>,
                       timestamp |-> stamp]}
                ELSE {}

\* one series holds a listed gap of bars i..i+2 followed by at least one bar,
\* and a gap that a later bar has entered
C11_Witness ==
    /\ \E i \in 1..(Len(ohlcv_df) - 3) : ListedGaps(fvg_result, ohlcv_df, i) # {}
    /\ \E i \in 1..(Len(ohlcv_df) - 3) :
        /\ ohlcv_df[i].high < ohlcv_df[i + 2].low \/ ohlcv_df[i].low > ohlcv_df[i + 2].high
        /\ ListedGaps(fvg_result, ohlcv_df, i) = {}

-----------------------------------------------------------------------------
(* Properties of break of structure and order block.                       *)

\* the swings of a list that precede the current bar
Preceding(series, swings) == SelectSeq(swings, LAMBDA ts : ts < series[Len(series)].timestamp)

PrecedingHighs == Preceding(ohlcv_df, swing_result.swing_highs)
PrecedingLows == Preceding(ohlcv_df, swing_result.swing_lows)

\* the price of the k-th swing high (swing low) counted from the last one
HighFromLast(k) ==
    ohlcv_df[BarOf(ohlcv_df, PrecedingHighs[Len(PrecedingHighs) + 1 - k])].high
LowFromLast(k) ==
    ohlcv_df[BarOf(ohlcv_df, PrecedingLows[Len(PrecedingLows) + 1 - k])].low

EnoughSwings == Len(PrecedingHighs) >= 2 /\ Len(PrecedingLows) >= 2

Bias ==
    IF HighFromLast(1) > HighFromLast(2) /\ LowFromLast(1) > LowFromLast(2) THEN "bullish"
    ELSE IF HighFromLast(1) < HighFromLast(2) /\ LowFromLast(1) < LowFromLast(2) THEN "bearish"
    ELSE "ranging"

\* close > last swing high x (1 + 0.0002), close < last swing low x (1 - 0.0002)
ClosedAbove == ohlcv_df[Len(ohlcv_df)].close * 10000 > HighFromLast(1) * 10002
ClosedBelow == ohlcv_df[Len(ohlcv_df)].close * 10000 < LowFromLast(1) * 9998

Analysed == pc = "structure" /\ ohlcv_df # <<>>

\* the event expected of a close above the last swing high, resp. below the
\* last swing low
ExpectedUp == IF Bias = "bullish" THEN "bullish_bos" ELSE "bullish_choch"
ExpectedDown == IF Bias = "bearish" THEN "bearish_bos" ELSE "bearish_choch"

\* an event, when reported, is stamped with the current bar
StampedWithCurrentBar ==
    bos_choch_result.type # "no_signal" =>
        bos_choch_result.timestamp = Num(ohlcv_df[Len(ohlcv_df)].timestamp)

\* C12 as stated: detect_bos_choch returns no_signal when fewer than two swing
\* highs or fewer than two swing lows precede the current bar; otherwise a
\* close above the last swing high x (1 + threshold) is reported as bullish_bos
\* under a bullish bias and bullish_choch under a bearish or ranging one, a
\* close below the last swing low x (1 - threshold) as bearish_bos under a
\* bearish bias and bearish_choch under a bullish or ranging one, and the one
\* event reported is stamped with the current bar.
C12_BosChochRule ==
    Analysed =>
        /\ ~EnoughSwings => bos_choch_result.type = "no_signal"
        /\ EnoughSwings =>
            /\ ClosedAbove => bos_choch_result.type = ExpectedUp
            /\ ClosedBelow => bos_choch_result.type = ExpectedDown
        /\ StampedWithCurrentBar

\* C12 (amended): as above, except that the close below the last swing low is
\* reported only when the close is not also above the last swing high; a close
\* beyond both levels is reported as the bullish event alone.
C12_BosChochPrecedence ==
    Analysed =>
        /\ ~EnoughSwings => bos_choch_result.type = "no_signal"
        /\ EnoughSwings =>
            /\ bos_choch_result.current_bias = Bias
            /\ ClosedAbove => bos_choch_result.type = ExpectedUp
            /\ ClosedBelow /\ ~ClosedAbove => bos_choch_result.type = ExpectedDown
        /\ StampedWithCurrentBar

\* the last swing low lies above the last swing high, the current bar closes
\* between them and the bullish event is reported
C12_Witness ==
    /\ Analysed /\ EnoughSwings /\ ClosedAbove /\ ClosedBelow
    /\ bos_choch_result.type = ExpectedUp

\* the bars searched for the order block: the ten before the breakout bar
BeforeBreakout == {i \in DOMAIN ohlcv_df : Len(ohlcv_df) - 10 <= i /\ i < Len(ohlcv_df)}

BearishCandles == {i \in BeforeBreakout : ohlcv_df[i].close < ohlcv_df[i].open}
BullishCandles == {i \in BeforeBreakout : ohlcv_df[i].close > ohlcv_df[i].open}

\* every bar after bar i stayed above it, resp. below it
StayedAbove(i) == \A j \in (i + 1)..Len(ohlcv_df) : ohlcv_df[j].low > ohlcv_df[i].high
StayedBelow(i) == \A j \in (i + 1)..Len(ohlcv_df) : ohlcv_df[j].high < ohlcv_df[i].low

\* the reported block is bar i
IsBlock(ob, i) ==
    /\ ~IsNone(ob)
    /\ ob.start_time = Num(ohlcv_df[i].timestamp)
    /\ ob.high = ohlcv_df[i].high /\ ob.low = ohlcv_df[i].low

BullishBreakAndGap ==
    /\ Analysed
    /\ bos_choch_result.type \in {"bullish_bos", "bullish_choch"}
    /\ fvg_result.type = "bullish_fvg"

BearishBreakAndGap ==
    /\ Analysed
    /\ bos_choch_result.type \in {"bearish_bos", "bearish_choch"}
    /\ fvg_result.type = "bearish_fvg"

\* C13: when a bullish BOS/CHoCH and a bullish FVG are both present and the
\* most recent bearish candle of the ten bars before the breakout bar has not
\* been traded into by any later bar, detect_order_block reports that candle as
\* the bullish order block; likewise the most recent bullish candle before a
\* bearish break with a bearish FVG is reported as the bearish order block.
C13_OrderBlockReported ==
    /\ BullishBreakAndGap /\ BearishCandles # {} /\ StayedAbove(LastOf(BearishCandles))
            => IsBlock(order_block_result.bullish_ob, LastOf(BearishCandles))
    /\ BearishBreakAndGap /\ BullishCandles # {} /\ StayedBelow(LastOf(BullishCandles))
            => IsBlock(order_block_result.bearish_ob, LastOf(BullishCandles))

-----------------------------------------------------------------------------
(* Properties of the signal builders.                                      *)

SimpleBuilt == pc = "signal" /\ trading_plan # NotBuilt
DetailedBuilt == pc = "signal" /\ detailed_signal # NotBuilt
\* the builder was given a close and an open
PricedRun ==
    ~IsNone(market_data.current_price) /\ ~IsNone(market_data.current_open_price)
Directional(plan) == plan.exc = "none" /\ plan.signal \in {"BUY", "SELL"}

\* the order block of the side of a signal and its zone
RunOb(side) ==
    IF side = "BUY" THEN market_data.smc_signals.order_block.bullish_ob
    ELSE market_data.smc_signals.order_block.bearish_ob
HasOb(side) ==
    "order_block" \in DOMAIN market_data.smc_signals /\ ~IsNone(RunOb(side))
InsideOb(side) ==
    /\ HasOb(side)
    /\ RunOb(side).low <= market_data.current_price.v
    /\ market_data.current_price.v <= RunOb(side).high
\* the price is inside the FVG of the side of a signal
InsideFvg(side) ==
    /\ "fvg" \in DOMAIN market_data.smc_signals
    /\ market_data.smc_signals.fvg.type
            = (IF side = "BUY" THEN "bullish_fvg" ELSE "bearish_fvg")
    /\ market_data.smc_signals.fvg.zone[1] <= market_data.current_price.v
    /\ market_data.current_price.v <= market_data.smc_signals.fvg.zone[2]

\* the last swing low (BUY) or swing high (SELL) of the run, None without
RunSwing(side) ==
    LastSwingPrice(market_data.smc_signals, ohlcv_df,
                   IF side = "BUY" THEN "swing_lows" ELSE "swing_highs",
                   IF side = "BUY" THEN "low" ELSE "high")
HasAtr ==
    /\ "ATR" \in DOMAIN market_data.classic_indicators
    /\ market_data.classic_indicators.ATR.v > 0

\* the stop-loss of the priority rule for an entry, in units of 1e-4
PriorityStop(side, entry) ==
    IF side = "BUY"
    THEN IF HasOb(side) THEN RunOb(side).low * 995
         ELSE IF ~IsNone(RunSwing(side)) THEN RunSwing(side).v * 995
         ELSE IF HasAtr THEN entry - market_data.classic_indicators.ATR.v * 1500
         ELSE market_data.current_price.v * 980
    ELSE IF HasOb(side) THEN RunOb(side).high * 1005
         ELSE IF ~IsNone(RunSwing(side)) THEN RunSwing(side).v * 1005
         ELSE IF HasAtr THEN entry + market_data.classic_indicators.ATR.v * 1500
         ELSE market_data.current_price.v * 1020

\* C14: the detailed builder returns, and the stop-loss of a BUY or SELL
\* signal is the first of: order block edge with its 0.5% buffer, last swing
\* extreme with its 0.5% buffer, entry -/+ 1.5 x ATR, current price -/+ 2%.
C14_StopLossPriority ==
    DetailedBuilt /\ PricedRun =>
        /\ detailed_signal.exc = "none"
        /\ Directional(detailed_signal) =>
            detailed_signal.stop_loss.v
                = PriorityStop(detailed_signal.signal, detailed_signal.entry_price.v)

\* the entry price C15 states, in units of 1e-4
StatedEntry(side) ==
    IF InsideOb(side) THEN (RunOb(side).low + RunOb(side).high) * 500
    ELSE IF InsideFvg(side)
    THEN (market_data.smc_signals.fvg.zone[1] + market_data.smc_signals.fvg.zone[2]) * 500
    ELSE market_data.current_price.v * 1000

\* C15: the detailed builder returns, and the entry of a BUY or SELL signal
\* is the order block midpoint when the price is inside the order block,
\* else the FVG midpoint when the price is inside the FVG, else the close.
C15_EntryPrice ==
    DetailedBuilt /\ PricedRun =>
        /\ detailed_signal.exc = "none"
        /\ Directional(detailed_signal) =>
            detailed_signal.entry_price.v = StatedEntry(detailed_signal.signal)

\* the entry and the stop-loss that the builder computes for a side coincide
ZeroRisk(side) ==
    LET entry == EntryPrice(side, market_data.smc_signals, market_data.current_price)
    IN  /\ PricedRun
        /\ ohlcv_df # <<>>
        /\ entry.level = StopLoss(side, market_data.classic_indicators,
                                  market_data.smc_signals, ohlcv_df,
                                  market_data.current_price, entry.level).level

\* C16: when the stop distance of a signal is zero the detailed builder does
\* not raise, and the signal has a reason about the zero risk appended and
\* neither a stop-loss nor a take-profit.
C16_DegenerateRisk ==
    \A side \in {"BUY", "SELL"} :
        DetailedBuilt /\ ZeroRisk(side) =>
            /\ detailed_signal.exc = "none"
            /\ detailed_signal.signal = side =>
                /\ detailed_signal.reason[Len(detailed_signal.reason)]
                        = "Risk per unit is zero, cannot calculate proper TP/SL."
                /\ IsNone(detailed_signal.stop_loss)
                /\ IsNone(detailed_signal.take_profit_1)
                /\ IsNone(detailed_signal.take_profit_2)
                /\ IsNone(detailed_signal.take_profit_3)

\* a plan of signals/signal_builder.py reports a risk-reward ratio above 0
ReportsPositive(plan) ==
    \/ plan.risk_reward_ratio = Str("inf")
    \/ plan.risk_reward_ratio.t = "fixed" /\ plan.risk_reward_ratio.v > 0

\* C17: a plan whose stop-loss and entry price are both set and unequal
\* reports a strictly positive risk-reward ratio.
C17_RiskRewardPositive ==
    /\ SimpleBuilt /\ trading_plan.exc = "none"
            /\ trading_plan.stop_loss # Str("N/A") /\ trading_plan.entry_price # Str("N/A")
            /\ trading_plan.stop_loss # trading_plan.entry_price
        => ReportsPositive(trading_plan)
    /\ DetailedBuilt /\ detailed_signal.exc = "none"
            /\ ~IsNone(detailed_signal.stop_loss) /\ ~IsNone(detailed_signal.entry_price)
            /\ detailed_signal.stop_loss # detailed_signal.entry_price
        => detailed_signal.risk_reward_ratio_base = Str("1:1.0")

\* C18: generate_trading_signal returns a plan for every sentiment: BUY for
\* BULLISH, SELL for BEARISH, and for CONFLICTING, NEUTRAL and NO_DATA a HOLD
\* without stop-loss, take-profit and risk-reward ratio.
C18_PlanForEverySentiment ==
    SimpleBuilt =>
        /\ trading_plan.exc = "none"
        /\ confluence_result.overall_sentiment = "BULLISH" => trading_plan.signal = "BUY"
        /\ confluence_result.overall_sentiment = "BEARISH" => trading_plan.signal = "SELL"
        /\ confluence_result.overall_sentiment \in {"CONFLICTING", "NEUTRAL", "NO_DATA"} =>
            /\ trading_plan.signal = "HOLD"
            /\ trading_plan.stop_loss = Str("N/A")
            /\ trading_plan.take_profit = Str("N/A")
            /\ trading_plan.risk_reward_ratio = Str("N/A")

-----------------------------------------------------------------------------
(* Properties of the zone helpers.                                         *)

ZoneChecked == pc = "zone" /\ zone_check.checked
\* a zone of two bounds, and the smaller and the larger of them
TwoBounds == Len(zone_check.zone) = 2
LowerBound ==
    IF zone_check.zone[1] <= zone_check.zone[2] THEN zone_check.zone[1]
    ELSE zone_check.zone[2]
UpperBound ==
    IF zone_check.zone[1] <= zone_check.zone[2] THEN zone_check.zone[2]
    ELSE zone_check.zone[1]

\* C19: with tolerance 0 _is_price_near_zone answers as _is_price_in_zone
\* does, and for a zone of two bounds that answer is true exactly when the
\* price is between the smaller and the larger bound, both included.
C19_NearZoneZeroTolerance ==
    ZoneChecked /\ zone_check.tolerance = 0 =>
        /\ zone_check.near_zone = zone_check.in_zone
        /\ TwoBounds =>
            (zone_check.in_zone
                <=> LowerBound <= zone_check.current_price
                    /\ zone_check.current_price <= UpperBound)

\* a price on the first bound of a zone given with its larger bound first
C19_Witness ==
    /\ ZoneChecked /\ zone_check.tolerance = 0 /\ TwoBounds
    /\ zone_check.zone[1] > zone_check.zone[2]
    /\ zone_check.current_price = zone_check.zone[1]
    /\ zone_check.in_zone /\ zone_check.near_zone

\* C20: _is_price_entering_zone is true whenever the open is below the zone
\* and the close at or above its lower bound, and whenever the open is above
\* the zone and the close at or below its upper bound.
C20_EnteringZone ==
    ZoneChecked /\ TwoBounds =>
        /\ zone_check.open_price < LowerBound /\ zone_check.current_price >= LowerBound
                => zone_check.entering_zone
        /\ zone_check.open_price > UpperBound /\ zone_check.current_price <= UpperBound
                => zone_check.entering_zone

\* C21: _is_price_entering_zone is false whenever the open and the close are
\* both strictly inside the zone, and whenever both are strictly outside it
\* on the same side, for a zone given in either bound order.
C21_NoEntryWithoutCrossing ==
    ZoneChecked /\ TwoBounds =>
        /\ ( /\ LowerBound < zone_check.open_price /\ zone_check.open_price < UpperBound
             /\ LowerBound < zone_check.current_price
             /\ zone_check.current_price < UpperBound )
                => ~zone_check.entering_zone
        /\ zone_check.open_price < LowerBound /\ zone_check.current_price < LowerBound
                => ~zone_check.entering_zone
        /\ zone_check.open_price > UpperBound /\ zone_check.current_price > UpperBound
                => ~zone_check.entering_zone

\* an open and a close strictly inside a zone given with its larger bound first
C21_Witness ==
    /\ ZoneChecked /\ TwoBounds
    /\ zone_check.zone[1] > zone_check.zone[2]
    /\ LowerBound < zone_check.open_price /\ zone_check.open_price < UpperBound
    /\ LowerBound < zone_check.current_price /\ zone_check.current_price < UpperBound
    /\ zone_check.open_price # zone_check.current_price
    /\ ~zone_check.entering_zone

-----------------------------------------------------------------------------
(* Properties of the confluence engine: missing prices and wire strings *)

Sentiments == {"BULLISH", "BEARISH", "NEUTRAL", "CONFLICTING"}

\* C23: evaluate_market_confluence returns NO_DATA exactly when current_price
\* or current_open_price is missing, and then neither evaluator is called; in
\* every other case it returns one of BULLISH, BEARISH, NEUTRAL, CONFLICTING.
C23_NoDataExactly ==
    pc = "done" =>
        /\ confluence_result.overall_sentiment = "NO_DATA" <=> ~Priced
        /\ ~Priced => /\ buy_strength_result = NotCalled
                      /\ sell_strength_result = NotCalled
        /\ Priced => /\ confluence_result.exc = "none"
                     /\ confluence_result.overall_sentiment \in Sentiments

\* C24: on the strong-buy scenario with its auxiliary values as numeric
\* strings, check_buy_confluence returns strong_buy and
\* evaluate_market_confluence returns BULLISH, and neither raises.
C24_WireStringsStrongBuy ==
    pc = "done" /\ market_data = mock_data_buy_strong(TRUE) =>
        /\ buy_strength_result.exc = "none"
        /\ buy_strength_result.type = "strong_buy"
        /\ confluence_result.exc = "none"
        /\ confluence_result.overall_sentiment = "BULLISH"

-----------------------------------------------------------------------------
(* Properties of the structure analysis: the order of the listed gaps and  *)
(* the choice among candidate swings.                                      *)

\* the primary gap of a detect_fvg result, as an entry of its list
PrimaryGap(fvg) == [type |-> fvg.type, zone |-> fvg.zone, timestamp |-> fvg.timestamp]

\* C27: all_unmitigated_fvg of detect_fvg is ordered from the oldest gap to the
\* newest, the primary gap equals its last element when it is non-empty, and
\* the primary type is no_fvg exactly when it is empty.
C27_GapOrder ==
    LET all == fvg_result.all_unmitigated_fvg
    IN  /\ \A i, j \in DOMAIN all : i < j => all[i].timestamp.v < all[j].timestamp.v
        /\ all # <<>> => PrimaryGap(fvg_result) = all[Len(all)]
        /\ fvg_result.type = "no_fvg" <=> all = <<>>

\* two unmitigated gaps of different types are listed and the newer one is
\* the primary gap
C27_Witness ==
    LET all == fvg_result.all_unmitigated_fvg
    IN  /\ Len(all) >= 2
        /\ all[1].type # all[Len(all)].type
        /\ all[1].timestamp.v < all[Len(all)].timestamp.v
        /\ PrimaryGap(fvg_result) = all[Len(all)]

\* bars a < b are candidates of the same kind that follow each other, and no
\* accepted swing of the other kind lies from a to b
FollowingHighs(a, b) ==
    /\ a < b
    /\ is_swing_high(ohlcv_df, min_bars, a) /\ is_swing_high(ohlcv_df, min_bars, b)
    /\ \A k \in (a + 1)..(b - 1) : ~is_swing_high(ohlcv_df, min_bars, k)
    /\ \A k \in a..b : ohlcv_df[k].timestamp \notin Range(swing_result.swing_lows)

FollowingLows(a, b) ==
    /\ a < b
    /\ is_swing_low(ohlcv_df, min_bars, a) /\ is_swing_low(ohlcv_df, min_bars, b)
    /\ \A k \in (a + 1)..(b - 1) : ~is_swing_low(ohlcv_df, min_bars, k)
    /\ \A k \in a..b : ohlcv_df[k].timestamp \notin Range(swing_result.swing_highs)

\* C26: of two candidate swings of the same kind that follow each other with
\* no accepted swing of the other kind between them,
\* find_significant_swing_points retains the more extreme (the higher high,
\* the lower low), whatever the number of bars between them.
C26_MoreExtremeRetained ==
    \A a, b \in DOMAIN ohlcv_df :
        /\ FollowingHighs(a, b) =>
            /\ ohlcv_df[a].timestamp \in Range(swing_result.swing_highs)
                    => ohlcv_df[a].high >= ohlcv_df[b].high
            /\ ohlcv_df[b].timestamp \in Range(swing_result.swing_highs)
                    => ohlcv_df[b].high >= ohlcv_df[a].high
        /\ FollowingLows(a, b) =>
            /\ ohlcv_df[a].timestamp \in Range(swing_result.swing_lows)
                    => ohlcv_df[a].low <= ohlcv_df[b].low
            /\ ohlcv_df[b].timestamp \in Range(swing_result.swing_lows)
                    => ohlcv_df[b].low <= ohlcv_df[a].low

-----------------------------------------------------------------------------
(* Properties of the signal builders: the side of the levels.               *)

\* a level of a plan of signals/signal_builder.py is a number
IsLevel(x) == x.t = "fixed"

\* a < b < c
Ascending(a, b, c) == a < b /\ b < c

\* C30: every BUY plan has stop_loss < entry_price < take_profit and every
\* SELL plan stop_loss > entry_price > take_profit; in the detailed builder
\* the three take-profits move away from the entry in order; no take-profit
\* equals the stop-loss.
C30_LevelsOnCorrectSide ==
    /\ ( /\ SimpleBuilt /\ Directional(trading_plan)
         /\ IsLevel(trading_plan.stop_loss) /\ IsLevel(trading_plan.entry_price)
         /\ IsLevel(trading_plan.take_profit) )
        => IF trading_plan.signal = "BUY"
           THEN Ascending(trading_plan.stop_loss.v, trading_plan.entry_price.v,
                          trading_plan.take_profit.v)
           ELSE Ascending(trading_plan.take_profit.v, trading_plan.entry_price.v,
                          trading_plan.stop_loss.v)
    /\ ( /\ DetailedBuilt /\ Directional(detailed_signal)
         /\ ~IsNone(detailed_signal.stop_loss) /\ ~IsNone(detailed_signal.take_profit_1) )
        => IF detailed_signal.signal = "BUY"
           THEN /\ Ascending(detailed_signal.stop_loss.v, detailed_signal.entry_price.v,
                             detailed_signal.take_profit_1.v)
                /\ Ascending(detailed_signal.take_profit_1.v, detailed_signal.take_profit_2.v,
                             detailed_signal.take_profit_3.v)
           ELSE /\ Ascending(detailed_signal.take_profit_1.v, detailed_signal.entry_price.v,
                             detailed_signal.stop_loss.v)
                /\ Ascending(detailed_signal.take_profit_3.v, detailed_signal.take_profit_2.v,
                             detailed_signal.take_profit_1.v)


-----------------------------------------------------------------------------
\* Properties of the two analyzers called on a price series.

CallsOf(fn) == {i \in DOMAIN calls : calls[i].fn = fn}

LacksColumn(df) == \E k \in DOMAIN REQUIRED_COLS : REQUIRED_COLS[k] \notin DOMAIN df.columns

SMC_KEYS == {"swing_points", "bos_choch", "fvg", "eq_zone", "order_block"}

\* C22: analyze_smc_structure never raises; it returns the empty dict
\* exactly when the series it was given is empty or lacks one of open, high,
\* low, close, volume, and for every other series a mapping whose keys are
\* exactly swing_points, bos_choch, fvg, eq_zone and order_block.
C22_StructureResultShape ==
    \A i \in CallsOf("analyze_smc_structure") :
        /\ calls[i].exc = "none"
        /\ IF calls[i].given.bars = <<>> \/ LacksColumn(calls[i].given)
           THEN calls[i].result = EmptyDict
           ELSE DOMAIN calls[i].result = SMC_KEYS \cup {"t"}

\* a series of rows that has every column but volume was analysed and
\* the empty dict came back
C22_Witness ==
    \E i \in CallsOf("analyze_smc_structure") :
        /\ calls[i].given.bars # <<>>
        /\ DOMAIN calls[i].given.columns = {"open", "high", "low", "close"}
        /\ calls[i].result = EmptyDict


\* C25: a call of calculate_indicators or of analyze_smc_structure leaves
\* the DataFrame object it was given as it was (no column added, removed
\* or rewritten), so a second call of the same function on the same object
\* is given the identical input and returns the identical output.
C25_SeriesLeftUnchanged ==
    /\ \A i \in DOMAIN calls : calls[i].df = calls[i].given
    /\ \A i, j \in DOMAIN calls :
        (i < j /\ calls[i].fn = calls[j].fn)
            => /\ calls[j].given = calls[i].given
               /\ calls[j].result = calls[i].result


\* the label of a snapshot under a key, "absent" when it has none
LabelOf(snapshot, key) == IF key \in DOMAIN snapshot THEN snapshot[key] ELSE "absent"

\* the lookback of each label of the snapshot
LOOKBACKS ==
    {<<"ema_signal", 50>>, <<"rsi_signal", 14>>, <<"macd_signal", 26>>,
     <<"macd_trend", 26>>, <<"bb_signal", 20>>, <<"stoch_signal", 14>>}

\* C28: on a series of one row or more that has every required column
\* calculate_indicators does not raise, an indicator whose lookback exceeds
\* the number of rows gets the label N/A_not_enough_data, and an indicator
\* whose lookback is satisfied gets a regular label.
C28_SentinelPerIndicator ==
    \A i \in CallsOf("calculate_indicators") :
        (calls[i].given.bars # <<>> /\ ~LacksColumn(calls[i].given))
            => /\ calls[i].exc = "none"
               /\ \A ind \in LOOKBACKS :
                    IF Len(calls[i].given.bars) < ind[2]
                    THEN LabelOf(calls[i].result, ind[1]) = "N/A_not_enough_data"
                    ELSE LabelOf(calls[i].result, ind[1])
                            \notin {"N/A_not_enough_data", "N/A_nan_values", "error", "absent"}


\* the snapshot of calculate_indicators was handed to the confluence engine
SnapshotEvaluated ==
    /\ pc = "pipeline"
    /\ market_data # EmptyDict
    /\ "RSI" \in DOMAIN market_data.classic_indicators

\* C29: when evaluate_market_confluence is fed the snapshot that
\* calculate_indicators returned, an RSI value below 70 in the snapshot sets
\* the RSI flag of check_buy_confluence and an RSI value above 30 sets the
\* RSI flag of check_sell_confluence.
C29_SnapshotRsiSetsFlag ==
    SnapshotEvaluated
        => /\ market_data.classic_indicators.RSI.v < 70
                => BuyConfluencesOf(market_data).rsi_not_overbought
           /\ market_data.classic_indicators.RSI.v > 30
                => SellConfluencesOf(market_data).rsi_not_oversold

=============================================================================
